---- MODULE Spec2Model ----
(***************************************************************************)
(* The WebSocket server of src/native/websocket/websocket.cc: the          *)
(* connection registry, the room registry (membership, capacity eviction,  *)
(* message history) and the frame codec (SendFrame / HandleFrame).         *)
(*                                                                         *)
(* A WebSocketRoom keeps raw WebSocketConnection* pointers.  A pointer is  *)
(* modelled as the address of the object; the allocator may hand the       *)
(* address of a destroyed connection to a later one.                       *)
(*                                                                         *)
(* Undefined behaviour is a nondeterministic choice between its outcomes:  *)
(*   - locking a std::mutex the calling thread already owns either blocks  *)
(*     the thread forever (proc = "hung") or goes through;                 *)
(*   - dereferencing a null or a destroyed object either ends the process  *)
(*     (proc = "crashed") or reads stale memory and goes on.               *)
(***************************************************************************)
EXTENDS Integers, Sequences, FiniteSets, TLC

\* ------------------------------------------------------------ bounds
MaxConn == 3
MaxRoomSize == 2
MaxStored == 2
MaxFrames == 2
MaxSmall == 2
MaxClock == 2

\* ------------------------------------------------------------ constants
DefaultMaxHistory == 100
WS_CONTINUATION == 0
WS_TEXT == 1
WS_BINARY == 2
WS_CLOSE == 8
WS_PING == 9
WS_PONG == 10

Addrs == 1..MaxConn
RoomSizes == 0..MaxRoomSize
RoomNames == {"lobby"}
Messages == {"hi", "yo"}
Opcodes == {WS_TEXT, WS_BINARY, WS_CLOSE, WS_PING, WS_PONG}
ByteSet == {0, 129}
PayloadSizes == {0, 1, 125, 126, 65535, 65536}
Seeds == {1, 7, 13}
Thresholds == 0..(MaxClock - 1)
NoRoom == ""
NoMsg == ""

VARIABLES
    proc,          \* "running" | "hung" | "crashed"
    nextId,        \* static std::atomic<uint64_t> nextId of the constructor
    connections,   \* WebSocketServer::connections_ : id -> connection object
    rooms,         \* WebSocketServer::rooms_ : name -> room object
    last,          \* the last public call or transport event and what it did
    sentFrames,    \* the frames the peer has encoded, in order
    stream,        \* their bytes the transport has not delivered yet
    reads,         \* the sizes of the deliveries (OnRead calls) so far
    received,      \* the frames HandleFrame has dispatched, in order
    isRunning,     \* WebSocketServer::isRunning_
    maxConnections,\* WebSocketServer::maxConnections_ (0: no limit)
    now,           \* the system clock, in milliseconds
    fanout,        \* the WebSocketRoom::Broadcast a second thread is inside of
    emitted,       \* how often each connection's connection and disconnect
                   \* callbacks have been called so far
    threads        \* the joinRoom and the leaveRoom that two threads other than
                   \* the loop's are inside of

codecVars == <<sentFrames, stream, reads, received>>
regVars == <<proc, nextId, connections, rooms, last>>
srvVars == <<isRunning, maxConnections>>
runVars == <<now, fanout, emitted, threads>>
vars == <<proc, nextId, connections, rooms, last, sentFrames, stream, reads, received,
          isRunning, maxConnections, now, fanout, emitted, threads>>

\* ------------------------------------------------------------ helpers
Range(s) == {s[i] : i \in 1..Len(s)}

Drop(f, k) == [x \in DOMAIN f \ {k} |-> f[x]]

Put(f, k, v) == (k :> v) @@ Drop(f, k)

\* erase(find(...)): the first occurrence only
RECURSIVE EraseFirst(_, _)
EraseFirst(s, x) ==
    IF s = <<>> THEN <<>>
    ELSE IF Head(s) = x THEN Tail(s)
    ELSE <<Head(s)>> \o EraseFirst(Tail(s), x)

\* the record the model keeps of the last call: its name and arguments (id:
\* the connection id passed, for a broadcast the excluded id), the ids it
\* wrote a message (data) frame to, in order, the address it took out of the
\* room's member list (0: none), the control frames it wrote, the events it
\* handed to the registered callbacks, and the ids whose transport handle it
\* called uv_close on (0: a handle no connection object wraps), each in order;
\* input: further arguments, as numbers; ret: what the call hands back to its
\* JavaScript caller (every method modelled as an action is void); order: where
\* the call both wrote a frame and called a callback, which it did first, as a
\* sequence of "write" and "event"; threw: the callback it called raised a
\* JavaScript exception
Call(op, id, room) ==
    [op |-> op, id |-> id, room |-> room, msg |-> NoMsg, sent |-> <<>>, removed |-> 0,
     frames |-> <<>>, events |-> <<>>, closed |-> <<>>, input |-> <<>>,
     ret |-> "undefined", order |-> <<>>, threw |-> FALSE]

\* a control frame written to connection to's transport (SendFrame -> uv_write)
Wrote(to, opcode, code, reason, payload) ==
    [to |-> to, opcode |-> opcode, code |-> code, reason |-> reason, payload |-> payload]

\* an event handed to the callback registered for type; every callback is
\* taken to be registered
Event(type, id, code, text, data) ==
    [type |-> type, id |-> id, code |-> code, text |-> text, data |-> data]

\* ------------------------------------------------------------ frame codec
\* a ^ b on bytes
RECURSIVE Xor(_, _)
Xor(a, b) ==
    IF a = 0 THEN b
    ELSE IF b = 0 THEN a
    ELSE (((a % 2) + (b % 2)) % 2) + 2 * Xor(a \div 2, b \div 2)

\* (x >> k) & 0xFF for a size_t x below 2^31
ByteAt(x, k) == IF k >= 31 THEN 0 ELSE (x \div (2 ^ k)) % 256

\* SendFrame with the 16-bit length written low byte first
SendFrame_LittleEndian16(opcode, data, mask) ==
    LET length == Len(data)
        ext == IF length <= 125 THEN <<>>
               ELSE IF length <= 65535 THEN <<ByteAt(length, 0), ByteAt(length, 8)>>
               ELSE [i \in 1..8 |-> ByteAt(length, (8 - i) * 8)]
        len7 == IF length <= 125 THEN length ELSE IF length <= 65535 THEN 126 ELSE 127
    IN <<IF opcode >= 128 THEN opcode ELSE 128 + opcode,
         len7 + (IF mask THEN 128 ELSE 0)>> \o ext \o data

\* SendFrame with the one-byte length form ending below 125
SendFrame_ShortBelow125(opcode, data, mask) ==
    LET length == Len(data)
        ext == IF length < 125 THEN <<>>
               ELSE IF length <= 65535 THEN <<ByteAt(length, 8), ByteAt(length, 0)>>
               ELSE [i \in 1..8 |-> ByteAt(length, (8 - i) * 8)]
        len7 == IF length < 125 THEN length ELSE IF length <= 65535 THEN 126 ELSE 127
    IN <<IF opcode >= 128 THEN opcode ELSE 128 + opcode,
         len7 + (IF mask THEN 128 ELSE 0)>> \o ext \o data

\* WebSocketConnection::SendFrame: the bytes handed to uv_write.  The mask
\* flag sets the MASK bit only: no key is written and the data is copied as
\* it is.
SendFrame(opcode, data, mask) ==
    LET length == Len(data)
        ext == IF length <= 125 THEN <<>>
               ELSE IF length <= 65535 THEN <<ByteAt(length, 8), ByteAt(length, 0)>>
               ELSE [i \in 1..8 |-> ByteAt(length, (8 - i) * 8)]
        len7 == IF length <= 125 THEN length ELSE IF length <= 65535 THEN 126 ELSE 127
    IN <<IF opcode >= 128 THEN opcode ELSE 128 + opcode,
         len7 + (IF mask THEN 128 ELSE 0)>> \o ext \o data

\* the outcomes of WebSocketConnection::HandleFrame on the bytes of one read
NoFrame == [status |-> "none", opcode |-> 0, payload |-> <<>>]
Crash == [status |-> "crash", opcode |-> 0, payload |-> <<>>]
Frame(opcode, payload) == [status |-> "frame", opcode |-> opcode, payload |-> payload]

\* the 64-bit extended length is 2^31 or more
Huge64(frame) == (\E i \in 3..6 : frame[i] # 0) \/ frame[7] >= 128

\* header_length + payload_length wraps around 2^64
Wraps64(frame, header_length) ==
    (\A i \in 3..9 : frame[i] = 255) /\ frame[10] >= 256 - header_length

\* HandleFrame with the completeness test dropped (whatever bytes are there
\* are taken as the payload)
HandleFrame_NoLengthCheck(frame) ==
    IF Len(frame) < 2 THEN NoFrame
    ELSE Frame(frame[1] % 16, SubSeq(frame, 3, Len(frame)))

\* HandleFrame that skips the mask key and hands on the payload as it is on
\* the wire
HandleFrame_NoUnmask(frame) ==
    LET length == Len(frame)
    IN IF length < 2 THEN NoFrame
       ELSE
       LET opcode == frame[1] % 16
           is_masked == frame[2] >= 128
           len7 == frame[2] % 128
           ext == IF len7 = 126 THEN 2 ELSE IF len7 = 127 THEN 8 ELSE 0
       IN IF length < 2 + ext THEN NoFrame
          ELSE
          LET header_length == 2 + ext + (IF is_masked THEN 4 ELSE 0)
              huge == len7 = 127 /\ Huge64(frame)
              payload_length ==
                  IF len7 = 126 THEN frame[3] * 256 + frame[4]
                  ELSE IF len7 = 127 /\ ~huge
                       THEN frame[7] * 16777216 + frame[8] * 65536 + frame[9] * 256 + frame[10]
                       ELSE len7
          IN IF length < header_length THEN NoFrame
             ELSE IF huge
                  THEN (IF Wraps64(frame, header_length) THEN Crash ELSE NoFrame)
             ELSE IF length < header_length + payload_length THEN NoFrame
             ELSE Frame(opcode, SubSeq(frame, header_length + 1, header_length + payload_length))

\* WebSocketConnection::HandleFrame up to its switch: the bytes of one read
\* are taken to start with a frame header; what follows the first frame is
\* not looked at, and an incomplete frame is dropped
HandleFrame(frame) ==
    LET length == Len(frame)
    IN IF length < 2 THEN NoFrame
       ELSE
       LET opcode == frame[1] % 16
           is_masked == frame[2] >= 128
           len7 == frame[2] % 128
           ext == IF len7 = 126 THEN 2 ELSE IF len7 = 127 THEN 8 ELSE 0
       IN IF length < 2 + ext THEN NoFrame
          ELSE
          LET header_length == 2 + ext + (IF is_masked THEN 4 ELSE 0)
              huge == len7 = 127 /\ Huge64(frame)
              payload_length ==
                  IF len7 = 126 THEN frame[3] * 256 + frame[4]
                  ELSE IF len7 = 127 /\ ~huge
                       THEN frame[7] * 16777216 + frame[8] * 65536 + frame[9] * 256 + frame[10]
                       ELSE len7
          IN IF length < header_length THEN NoFrame
             ELSE IF huge
                  THEN (IF Wraps64(frame, header_length) THEN Crash ELSE NoFrame)
             ELSE IF length < header_length + payload_length THEN NoFrame
             ELSE LET wire == SubSeq(frame, header_length + 1, header_length + payload_length)
                      mask_key == SubSeq(frame, header_length - 3, header_length)
                  IN Frame(opcode,
                           IF is_masked
                           THEN [i \in 1..payload_length |->
                                    Xor(wire[i], mask_key[((i - 1) % 4) + 1])]
                           ELSE wire)

\* the opcodes the switch of HandleFrame has a case for
Dispatched(opcode) == opcode \in {WS_TEXT, WS_BINARY, WS_PING, WS_PONG, WS_CLOSE}

\* ------------------------------------------------------------ WebSocketConnection
\* the object as the constructor leaves it
NewConnection(a) ==
    [addr |-> a, client |-> TRUE, isAlive |-> TRUE, isAuthenticated |-> FALSE,
     lastActivity |-> now, rooms |-> <<>>]

\* WebSocketConnection::JoinRoom on the connection's own rooms_ vector
ConnJoinRoom(rs, r) == IF r \in Range(rs) THEN rs ELSE Append(rs, r)

\* WebSocketConnection::LeaveRoom
ConnLeaveRoom(rs, r) == EraseFirst(rs, r)

\* WebSocketConnection::IsInRoom
ConnIsInRoom(rs, r) == r \in Range(rs)

\* Close that leaves isAlive_ as it is
ConnClose_KeepsAlive(c) == IF c.client THEN [c EXCEPT !.client = FALSE] ELSE c

\* WebSocketConnection::Close on an object: a no-op once client_ is null
ConnClose(c) == IF c.client THEN [c EXCEPT !.client = FALSE, !.isAlive = FALSE] ELSE c

\* Close with the already-closed test dropped
CloseWrites_NoGuard(c, id, code, reason) ==
    <<Wrote(id, WS_CLOSE, code, reason, <<>>)>>

\* the Close frame WebSocketConnection::Close(code, reason) writes on the
\* object c of connection id: none once client_ is null
CloseWrites(c, id, code, reason) ==
    IF c.client THEN <<Wrote(id, WS_CLOSE, code, reason, <<>>)>> ELSE <<>>

\* and its uv_close call on the connection's handle
CloseHandles(c, id) == IF c.client THEN <<id>> ELSE <<>>

\* ------------------------------------------------------------ WebSocketRoom
NewRoom == [connections |-> <<>>, maxSize |-> 0, messageHistory |-> <<>>]

\* AddConnection with the newest member evicted instead of the oldest
AddConnection_EvictNewest(room, a) ==
    IF a \in Range(room.connections) THEN room
    ELSE LET kept == IF room.maxSize > 0 /\ Len(room.connections) >= room.maxSize
                     THEN SubSeq(room.connections, 1, Len(room.connections) - 1)
                     ELSE room.connections
         IN [room EXCEPT !.connections = Append(kept, a)]

\* WebSocketRoom::AddConnection
AddConnection(room, a) ==
    IF a \in Range(room.connections) THEN room
    ELSE LET kept == IF room.maxSize > 0 /\ Len(room.connections) >= room.maxSize
                     THEN Tail(room.connections)
                     ELSE room.connections
         IN [room EXCEPT !.connections = Append(kept, a)]

\* WebSocketRoom::RemoveConnection
RemoveConnection(room, a) ==
    [room EXCEPT !.connections = EraseFirst(room.connections, a)]

\* WebSocketRoom::StoreMessage
StoreMessage(room, m, maxHistory) ==
    LET pushed == Append(room.messageHistory, m)
    IN [room EXCEPT !.messageHistory =
            IF maxHistory > 0 /\ Len(pushed) > maxHistory THEN Tail(pushed) ELSE pushed]

\* ------------------------------------------------------------ WebSocketServer helpers
\* WebSocketServer::GetConnection: the object, looked up by id
HasConnection(id) == id \in DOMAIN connections

\* the live connection object stored at an address, if any
LiveAt(a) == {id \in DOMAIN connections : connections[id].addr = a}

FreeAddrs == {a \in Addrs : LiveAt(a) = {}}

\* addresses some room still holds although their object was destroyed
Dangling(rs) == {a \in FreeAddrs : \E name \in DOMAIN rs : a \in Range(rs[name].connections)}

\* what operator new may return for the next connection: the address of a
\* destroyed object, or an address never handed out (these are
\* interchangeable, so the lowest stands for all of them)
Fresh(rs) == FreeAddrs \ Dangling(rs)

NewAddrs(rs) ==
    Dangling(rs) \cup (IF Fresh(rs) = {} THEN {}
                       ELSE {CHOOSE a \in Fresh(rs) : \A b \in Fresh(rs) : a <= b})

\* WebSocketServer::GetRoom(name, create) applied to a rooms_ map
GetRoom(rs, name) == IF name \in DOMAIN rs THEN rs[name] ELSE NewRoom

\* WebSocketServer::OnRoomJoin on the rooms_ map
OnRoomJoin(rs, a, name) == Put(rs, name, AddConnection(GetRoom(rs, name), a))

\* OnRoomLeave that never erases a room
OnRoomLeave_KeepEmpty(rs, a, name) ==
    IF name \notin DOMAIN rs THEN rs
    ELSE Put(rs, name, RemoveConnection(rs[name], a))

\* WebSocketServer::OnRoomLeave on the rooms_ map
OnRoomLeave(rs, a, name) ==
    IF name \notin DOMAIN rs THEN rs
    ELSE LET room == RemoveConnection(rs[name], a)
         IN IF Len(room.connections) = 0 THEN Drop(rs, name) ELSE Put(rs, name, room)

\* the loop of WebSocketServer::LeaveAllRooms over the copied room names
RECURSIVE LeaveEach(_, _, _)
LeaveEach(rs, a, names) ==
    IF names = <<>> THEN rs
    ELSE LeaveEach(OnRoomLeave(rs, a, Head(names)), a, Tail(names))

\* the roomLeave events of that loop: OnRoomLeave emits one unless the room
\* does not exist when its turn comes
RECURSIVE RoomLeaveEvents(_, _, _, _)
RoomLeaveEvents(rs, id, a, names) ==
    IF names = <<>> THEN <<>>
    ELSE (IF Head(names) \in DOMAIN rs
          THEN <<Event("roomLeave", id, 0, Head(names), <<>>)>> ELSE <<>>)
         \o RoomLeaveEvents(OnRoomLeave(rs, a, Head(names)), id, a, Tail(names))

\* WebSocketServer::OnDisconnect on the connections_ map: the connection's own
\* rooms_ are cleared and the object is erased (and with that destroyed); no
\* room is touched
OnDisconnect(cs, id) == Drop(cs, id)

\* WebSocketServer::IsInRoom
IsInRoom(id, name) == HasConnection(id) /\ ConnIsInRoom(connections[id].rooms, name)

\* WebSocketServer::GetRoomConnections: the ids read through the member
\* pointers; 0 stands for whatever a destroyed object yields
IdAt(a) == IF LiveAt(a) = {} THEN 0 ELSE CHOOSE id \in LiveAt(a) : TRUE

GetRoomConnections(name) ==
    IF name \notin DOMAIN rooms THEN <<>>
    ELSE [i \in 1..Len(rooms[name].connections) |-> IdAt(rooms[name].connections[i])]

\* WebSocketServer::GetRooms
GetRooms == DOMAIN rooms

\* the loop of WebSocketRoom::Broadcast / BroadcastBinary over the members
\* whose object is alive: conn->Send / SendBinary writes a frame unless conn
\* is the excluded pointer or its client_ is null.  The ids written to, in
\* member order.
RECURSIVE SendToEach(_, _)
SendToEach(members, exclude) ==
    IF members = <<>> THEN <<>>
    ELSE LET a == Head(members)
             rest == SendToEach(Tail(members), exclude)
         IN IF a # exclude /\ LiveAt(a) # {} /\ connections[IdAt(a)].client
            THEN <<IdAt(a)>> \o rest
            ELSE rest

\* the positions at which the loop calls Send on a destroyed object
Destroyed(members, exclude) ==
    {i \in 1..Len(members) : members[i] # exclude /\ LiveAt(members[i]) = {}}

\* excludeId ? GetConnection(excludeId) : nullptr   (0 is the null pointer)
ExcludePtr(excludeId) ==
    IF excludeId # 0 /\ HasConnection(excludeId) THEN connections[excludeId].addr ELSE 0

\* no broadcast is in progress on a second thread
NoFanout ==
    [op |-> "", room |-> NoRoom, msg |-> NoMsg, exclude |-> 0, todo |-> <<>>,
     sent |-> <<>>]

\* no callback has been called yet
NoneEmitted == [id \in 1..MaxConn |-> [connection |-> 0, disconnect |-> 0]]

\* onConnectionCallback_.Call / onDisconnectCallback_.Call for connection id
EmitConnection(em, id) == [em EXCEPT ![id].connection = @ + 1]

EmitDisconnect(em, id) == [em EXCEPT ![id].disconnect = @ + 1]

\* a thread that is in no call: pc is where a thread stands in its call, id and
\* addr the connection it looked up, room the name it was given; stale: the
\* WebSocketRoom* it got from GetRoom points to a room erased since
NoThread == [pc |-> "idle", id |-> 0, addr |-> 0, room |-> NoRoom, stale |-> FALSE]

NoThreads == [join |-> NoThread, leave |-> NoThread]

\* ------------------------------------------------------------ actions
Init ==
    /\ proc = "running"
    /\ nextId = 1
    /\ connections = <<>>
    /\ rooms = <<>>
    /\ last = Call("init", 0, NoRoom)
    /\ sentFrames = <<>>
    /\ stream = <<>>
    /\ reads = <<>>
    /\ received = <<>>
    /\ isRunning = FALSE
    /\ maxConnections = 0
    /\ now = 0
    /\ fanout = NoFanout
    /\ emitted = NoneEmitted
    /\ threads = NoThreads

\* Start that takes the server for running whether or not listening succeeded
Start_IgnoresFailure ==
    /\ proc = "running"
    /\ \E ok \in BOOLEAN :
          /\ isRunning' = TRUE
          /\ last' = [Call("start", 0, NoRoom) EXCEPT
                         !.msg = IF isRunning THEN "ignored" ELSE IF ok THEN "listening" ELSE "failed"]
    /\ UNCHANGED <<proc, nextId, connections, rooms, maxConnections>>
    /\ UNCHANGED codecVars
    /\ UNCHANGED runVars

\* WebSocketServer::Start: a no-op on a running server; otherwise the listening
\* handle is initialised, bound and listened on, and only if all three succeed
\* (ok) isRunning_ is set
Start ==
    /\ proc = "running"
    /\ \E ok \in BOOLEAN :
          /\ isRunning' = (isRunning \/ ok)
          /\ last' = [Call("start", 0, NoRoom) EXCEPT
                         !.msg = IF isRunning THEN "ignored" ELSE IF ok THEN "listening" ELSE "failed"]
    /\ UNCHANGED <<proc, nextId, connections, rooms, maxConnections>>
    /\ UNCHANGED codecVars
    /\ UNCHANGED runVars

\* the admission test with > for >=
AtMaxConnections_OffByOne ==
    maxConnections > 0 /\ Cardinality(DOMAIN connections) > maxConnections

\* the admission test of OnConnection
AtMaxConnections ==
    maxConnections > 0 /\ Cardinality(DOMAIN connections) >= maxConnections

\* nextId++ that hands the same value out again
TakeId_Same(n) == n

\* id_ = nextId++ in the constructor: the counter afterwards
TakeId(n) == n + 1

\* WebSocketServer::OnConnection: the object is built (taking the next id),
\* stored, and then read through the moved-from unique_ptr
OnConnection ==
    /\ proc = "running"
    /\ isRunning
    /\ nextId <= MaxConn
    /\ IF AtMaxConnections
       THEN /\ last' = [Call("connection", 0, NoRoom) EXCEPT
                           !.closed = <<0>>,
                           !.events = <<Event("error", 0, 0, "Max connections reached", <<>>)>>]
            /\ UNCHANGED <<proc, nextId, connections, emitted>>
       ELSE \E a \in NewAddrs(rooms), outcome \in {"running", "crashed"} :
               /\ connections' = Put(connections, nextId, NewConnection(a))
               /\ nextId' = TakeId(nextId)
               /\ proc' = outcome
               /\ last' = [Call("connection", nextId, NoRoom) EXCEPT
                              !.events = IF outcome = "running"
                                         THEN <<Event("connection", nextId, 0, "", <<>>)>>
                                         ELSE <<>>]
               /\ emitted' = IF outcome = "running"
                             THEN EmitConnection(emitted, nextId) ELSE emitted
    /\ UNCHANGED <<rooms, now, fanout, threads>>
    /\ UNCHANGED codecVars
    /\ UNCHANGED srvVars

\* WebSocketServer::JoinRoom
JoinRoom(id, name) ==
    /\ proc = "running"
    /\ IF ~HasConnection(id)
       THEN /\ UNCHANGED <<connections, rooms>>
            /\ last' = Call("joinRoom", id, name)
       ELSE LET a == connections[id].addr
                before == GetRoom(rooms, name).connections
                after == OnRoomJoin(rooms, a, name)
            IN /\ connections' = [connections EXCEPT ![id].rooms = ConnJoinRoom(@, name)]
               /\ rooms' = after
               /\ last' = [Call("joinRoom", id, name) EXCEPT
                              !.removed =
                                 IF before # <<>> /\ Head(before) \notin Range(after[name].connections)
                                 THEN Head(before) ELSE 0,
                              !.events = <<Event("roomJoin", id, 0, name, <<>>)>>]
    /\ UNCHANGED <<proc, nextId>>
    /\ UNCHANGED codecVars
    /\ UNCHANGED runVars
    /\ UNCHANGED srvVars

\* WebSocketServer::LeaveRoom
LeaveRoom(id, name) ==
    /\ proc = "running"
    /\ IF ~HasConnection(id)
       THEN UNCHANGED <<connections, rooms>>
       ELSE /\ connections' = [connections EXCEPT ![id].rooms = ConnLeaveRoom(@, name)]
            /\ rooms' = OnRoomLeave(rooms, connections[id].addr, name)
    /\ last' = [Call("leaveRoom", id, name) EXCEPT
                   !.removed =
                      IF HasConnection(id) /\ name \in DOMAIN rooms
                         /\ connections[id].addr \in Range(rooms[name].connections)
                      THEN connections[id].addr ELSE 0,
                   !.events =
                      IF HasConnection(id) /\ name \in DOMAIN rooms
                      THEN <<Event("roomLeave", id, 0, name, <<>>)>> ELSE <<>>]
    /\ UNCHANGED <<proc, nextId>>
    /\ UNCHANGED codecVars
    /\ UNCHANGED runVars
    /\ UNCHANGED srvVars

\* WebSocketServer::LeaveAllRooms
LeaveAllRooms(id) ==
    /\ proc = "running"
    /\ IF ~HasConnection(id)
       THEN UNCHANGED <<connections, rooms>>
       ELSE /\ connections' = [connections EXCEPT ![id].rooms = <<>>]
            /\ rooms' = LeaveEach(rooms, connections[id].addr, connections[id].rooms)
    /\ last' = [Call("leaveAllRooms", id, NoRoom) EXCEPT
                   !.events = IF HasConnection(id)
                              THEN RoomLeaveEvents(rooms, id, connections[id].addr,
                                                   connections[id].rooms)
                              ELSE <<>>]
    /\ UNCHANGED <<proc, nextId>>
    /\ UNCHANGED codecVars
    /\ UNCHANGED runVars
    /\ UNCHANGED srvVars

\* WebSocketServer::SetMaxRoomSize: mutex_ is taken, then GetRoom takes it again
SetMaxRoomSize(name, n) ==
    /\ proc = "running"
    /\ \/ /\ proc' = "hung"
          /\ UNCHANGED rooms
       \/ /\ proc' = "running"
          /\ rooms' = Put(rooms, name, [GetRoom(rooms, name) EXCEPT !.maxSize = n])
    /\ last' = Call("setMaxRoomSize", 0, name)
    /\ UNCHANGED <<nextId, connections>>
    /\ UNCHANGED codecVars
    /\ UNCHANGED runVars
    /\ UNCHANGED srvVars

\* OnRead -> HandleFrame -> HandleClose: a Close frame with no payload arrives
\* on a connection whose handle is still read from; the Close is echoed with
\* code 1000 and the server's OnDisconnect runs
HandleClose(id) ==
    /\ proc = "running"
    /\ HasConnection(id)
    /\ connections[id].client
    /\ connections' = OnDisconnect(connections, id)
    /\ last' = [Call("disconnect", id, NoRoom) EXCEPT
                   !.frames = <<Wrote(id, WS_CLOSE, 1000, "", <<>>)>>,
                   !.closed = <<id>>,
                   !.events = <<Event("disconnect", id, 1000, "", <<>>)>>,
                   !.order = <<"write", "event", "erase">>]
    /\ emitted' = EmitDisconnect(emitted, id)
    /\ UNCHANGED <<proc, nextId, rooms, now, fanout, threads>>
    /\ UNCHANGED codecVars
    /\ UNCHANGED srvVars

\* WebSocketServer::CloseConnection -> CloseConnectionById: mutex_ is taken,
\* then GetConnection takes it again
CloseConnection(id) ==
    /\ proc = "running"
    /\ \/ /\ proc' = "hung"
          /\ UNCHANGED connections
       \/ /\ proc' = "running"
          /\ connections' = IF HasConnection(id)
                            THEN [connections EXCEPT ![id] = ConnClose(@)]
                            ELSE connections
    /\ last' = IF proc' = "running" /\ HasConnection(id)
               THEN [Call("closeConnection", id, NoRoom) EXCEPT
                        !.frames = CloseWrites(connections[id], id, 1000, ""),
                        !.closed = CloseHandles(connections[id], id)]
               ELSE Call("closeConnection", id, NoRoom)
    /\ UNCHANGED <<nextId, rooms>>
    /\ UNCHANGED codecVars
    /\ UNCHANGED runVars
    /\ UNCHANGED srvVars

\* what both room broadcasts share: the loop over the members ends the
\* process at a destroyed member (crashAt) or gets through all of them
BroadcastLoop(op, name, m, excludeId, crashAt) ==
    LET members == rooms[name].connections
        exclude == ExcludePtr(excludeId)
        reached == IF crashAt = 0 THEN members ELSE SubSeq(members, 1, crashAt - 1)
    IN last' = [Call(op, excludeId, name) EXCEPT
                    !.msg = m, !.sent = SendToEach(reached, exclude)]

\* WebSocketServer::BroadcastToRoom -> WebSocketRoom::Broadcast: the room's
\* mutex_ is taken, the members are sent to, then StoreMessage takes the same
\* mutex_ again
BroadcastToRoom(name, m, excludeId) ==
    /\ proc = "running"
    /\ IF name \notin DOMAIN rooms
       THEN /\ last' = [Call("broadcastToRoom", excludeId, name) EXCEPT !.msg = m]
            /\ UNCHANGED <<proc, rooms>>
       ELSE /\ Len(rooms[name].messageHistory) < MaxStored
            /\ \E crashAt \in {0} \cup Destroyed(rooms[name].connections, ExcludePtr(excludeId)) :
                /\ BroadcastLoop("broadcastToRoom", name, m, excludeId, crashAt)
                /\ \/ /\ crashAt # 0
                      /\ proc' = "crashed"
                      /\ UNCHANGED rooms
                   \/ /\ crashAt = 0
                      /\ proc' = "hung"
                      /\ UNCHANGED rooms
                   \/ /\ crashAt = 0
                      /\ proc' = "running"
                      /\ rooms' = Put(rooms, name, StoreMessage(rooms[name], m, DefaultMaxHistory))
    /\ UNCHANGED <<nextId, connections>>
    /\ UNCHANGED codecVars
    /\ UNCHANGED runVars
    /\ UNCHANGED srvVars

\* WebSocketServer::BroadcastBinaryToRoom -> WebSocketRoom::BroadcastBinary
BroadcastBinaryToRoom(name, m, excludeId) ==
    /\ proc = "running"
    /\ IF name \notin DOMAIN rooms
       THEN /\ last' = [Call("broadcastBinaryToRoom", excludeId, name) EXCEPT !.msg = m]
            /\ UNCHANGED proc
       ELSE \E crashAt \in {0} \cup Destroyed(rooms[name].connections, ExcludePtr(excludeId)) :
                /\ BroadcastLoop("broadcastBinaryToRoom", name, m, excludeId, crashAt)
                /\ proc' = IF crashAt = 0 THEN "running" ELSE "crashed"
    /\ UNCHANGED <<nextId, connections, rooms>>
    /\ UNCHANGED codecVars
    /\ UNCHANGED runVars
    /\ UNCHANGED srvVars

\* the peer encodes another frame, unmasked, and puts it on the wire (at most
\* limit frames, all before the first delivery)
PeerSend(opcode, payload, limit) ==
    /\ proc = "running"
    /\ reads = <<>>
    /\ Len(sentFrames) < limit
    /\ sentFrames' = Append(sentFrames, [opcode |-> opcode, payload |-> payload])
    /\ stream' = stream \o SendFrame(opcode, payload, FALSE)
    /\ UNCHANGED <<reads, received>>
    /\ UNCHANGED regVars
    /\ UNCHANGED srvVars
    /\ UNCHANGED runVars

\* WebSocketConnection::OnRead with nread = n > 0: the transport delivers the
\* next n bytes and HandleFrame runs on them.  Once a Close frame has been
\* handled the handle is closed and nothing more is read.
OnRead(n) ==
    /\ proc = "running"
    /\ n >= 1
    /\ n <= Len(stream)
    /\ ~(received # <<>> /\ received[Len(received)].opcode = WS_CLOSE)
    /\ LET got == HandleFrame(SubSeq(stream, 1, n))
       IN /\ received' = IF got.status = "frame" /\ Dispatched(got.opcode)
                         THEN Append(received, [opcode |-> got.opcode, payload |-> got.payload])
                         ELSE received
          /\ proc' = IF got.status = "crash" THEN "crashed" ELSE "running"
    /\ stream' = SubSeq(stream, n + 1, Len(stream))
    /\ reads' = Append(reads, n)
    /\ UNCHANGED <<sentFrames, nextId, connections, rooms, last>>
    /\ UNCHANGED srvVars
    /\ UNCHANGED runVars

Next ==
    \/ Start
    \/ OnConnection
    \/ \E id \in 1..MaxConn, name \in RoomNames : JoinRoom(id, name)
    \/ \E id \in 1..MaxConn, name \in RoomNames : LeaveRoom(id, name)
    \/ \E id \in 1..MaxConn : LeaveAllRooms(id)
    \/ \E name \in RoomNames, n \in RoomSizes : SetMaxRoomSize(name, n)
    \/ \E id \in 1..MaxConn : HandleClose(id)

Spec == Init /\ [][Next]_vars

\* connections in two rooms at once, one of them with room for a single member
RoomPair == {"lobby", "den"}

NextLeaveAll ==
    \/ Start
    \/ OnConnection
    \/ \E id \in 1..MaxConn, name \in RoomPair : JoinRoom(id, name)
    \/ \E id \in 1..MaxConn : LeaveAllRooms(id)
    \/ \E id \in 1..MaxConn : HandleClose(id)
    \/ SetMaxRoomSize("den", 1)

SpecLeaveAll == Init /\ [][NextLeaveAll]_vars

\* the room broadcasts, over one room
NextBroadcast ==
    \/ Start
    \/ OnConnection
    \/ \E id \in 1..MaxConn, name \in RoomNames : JoinRoom(id, name)
    \/ \E id \in 1..MaxConn : HandleClose(id)
    \/ \E id \in 1..MaxConn : CloseConnection(id)
    \/ \E name \in RoomNames, m \in Messages, ex \in 0..MaxConn : BroadcastToRoom(name, m, ex)
    \/ \E name \in RoomNames, m \in Messages, ex \in 0..MaxConn : BroadcastBinaryToRoom(name, m, ex)

SpecBroadcast == Init /\ [][NextBroadcast]_vars

\* the codec on short frames, delivered in every way the transport can cut them
RECURSIVE SeqsUpTo(_, _)
SeqsUpTo(S, n) ==
    IF n = 0 THEN {<<>>}
    ELSE LET shorter == SeqsUpTo(S, n - 1)
         IN shorter \cup {Append(q, x) : q \in shorter, x \in S}

SmallPayloads == SeqsUpTo(ByteSet, MaxSmall)

\* the longest wire MaxFrames short frames make
MaxStream == MaxFrames * (2 + MaxSmall)

NextCodec ==
    \/ \E opcode \in Opcodes, payload \in SmallPayloads : PeerSend(opcode, payload, MaxFrames)
    \/ \E n \in 1..MaxStream : OnRead(n)

SpecCodec == Init /\ [][NextCodec]_vars

\* one frame of each size class, delivered whole
Pattern(n, seed) == [i \in 1..n |-> (i * seed) % 256]

NextRoundTrip ==
    \/ \E opcode \in Opcodes, n \in PayloadSizes, seed \in Seeds :
            PeerSend(opcode, Pattern(n, seed), 1)
    \/ OnRead(Len(stream))

SpecRoundTrip == Init /\ [][NextRoundTrip]_vars

\* ------------------------------------------------------------ frames and read errors on a connection
\* the bytes a peer puts on the wire for one unmasked frame; fin = FALSE
\* clears the FIN bit
PeerBytes(fin, opcode, payload) ==
    LET bytes == SendFrame(opcode, payload, FALSE)
    IN IF fin THEN bytes ELSE <<bytes[1] - 128>> \o Tail(bytes)

\* the status code HandleFrame's WS_CLOSE case reads from the payload
CloseCode(payload) == IF Len(payload) >= 2 THEN payload[1] * 256 + payload[2] ELSE 1000

\* and the reason bytes
CloseReason(payload) == IF Len(payload) > 2 THEN SubSeq(payload, 3, Len(payload)) ELSE <<>>

\* WebSocketConnection::HandleMessage -> WebSocketServer::OnMessage, as what
\* the call record of the read shows afterwards
HandleMessage(call, id, payload) ==
    [call EXCEPT !.events = <<Event("message", id, 0, "", payload)>>]

\* WebSocketConnection::HandleBinaryMessage -> WebSocketServer::OnBinaryMessage
HandleBinaryMessage(call, id, payload) ==
    [call EXCEPT !.events = <<Event("binaryMessage", id, 0, "", payload)>>]

\* HandlePing that answers with an empty Pong
HandlePing_EmptyPong(call, id, payload) ==
    [call EXCEPT !.frames = <<Wrote(id, WS_PONG, 0, "", <<>>)>>,
                 !.events = <<Event("ping", id, 0, "", <<>>)>>,
                 !.order = <<"write", "event">>]

\* WebSocketConnection::HandlePing: SendFrame(WS_PONG, data, length), then
\* WebSocketServer::OnPing
HandlePing(call, id, payload) ==
    [call EXCEPT !.frames = <<Wrote(id, WS_PONG, 0, "", payload)>>,
                 !.events = <<Event("ping", id, 0, "", <<>>)>>,
                 !.order = <<"write", "event">>]

\* WebSocketConnection::HandlePong -> WebSocketServer::OnPong
HandlePong(call, id) ==
    [call EXCEPT !.events = <<Event("pong", id, 0, "", <<>>)>>]

\* the WS_CLOSE case that echoes code 1000 and no reason whatever it received
HandleCloseFrame_Echo1000(call, id, payload) ==
    [call EXCEPT !.frames = <<Wrote(id, WS_CLOSE, 1000, "", <<>>)>>,
                 !.closed = <<id>>,
                 !.events = <<Event("disconnect", id, CloseCode(payload), "",
                                    CloseReason(payload))>>,
                 !.order = <<"write", "event", "erase">>]

\* the WS_CLOSE case of HandleFrame and WebSocketConnection::HandleClose on an
\* open connection: Close(code, reason), then WebSocketServer::OnDisconnect,
\* which calls the disconnect callback and then erases the connection
HandleCloseFrame(call, id, payload) ==
    [call EXCEPT !.frames = <<Wrote(id, WS_CLOSE, CloseCode(payload), "", CloseReason(payload))>>,
                 !.closed = <<id>>,
                 !.events = <<Event("disconnect", id, CloseCode(payload), "",
                                    CloseReason(payload))>>,
                 !.order = <<"write", "event", "erase">>]

\* the switch with the break of its first case missing: a text frame runs
\* into the binary case as well
Handled_NoBreak(call, id, got) ==
    IF got.opcode = WS_TEXT
    THEN [call EXCEPT !.events = <<Event("message", id, 0, "", got.payload),
                                   Event("binaryMessage", id, 0, "", got.payload)>>]
    ELSE IF got.opcode = WS_BINARY THEN HandleBinaryMessage(call, id, got.payload)
    ELSE IF got.opcode = WS_PING THEN HandlePing(call, id, got.payload)
    ELSE IF got.opcode = WS_PONG THEN HandlePong(call, id)
    ELSE HandleCloseFrame(call, id, got.payload)

\* the switch of HandleFrame
Handled(call, id, got) ==
    IF got.opcode = WS_TEXT THEN HandleMessage(call, id, got.payload)
    ELSE IF got.opcode = WS_BINARY THEN HandleBinaryMessage(call, id, got.payload)
    ELSE IF got.opcode = WS_PING THEN HandlePing(call, id, got.payload)
    ELSE IF got.opcode = WS_PONG THEN HandlePong(call, id)
    ELSE HandleCloseFrame(call, id, got.payload)

\* WebSocketConnection::OnRead with nread > 0 on connection id, whose handle is
\* still read from, the delivery being the bytes of one peer frame:
\* UpdateActivity, HandleFrame and the handler its switch picks, with the
\* server callback each one calls.  throws: the JavaScript function behind
\* that callback raises an exception.  No call of a callback is inside a try
\* block.  In a build with C++ exceptions the Napi::Error leaves Call(), skips
\* the rest of the handler and unwinds through OnRead into libuv, which ends
\* the process; in a build without them Call() returns, the exception stays
\* pending and the handler goes on.
OnFrame(id, fin, opcode, payload, throws) ==
    /\ proc = "running"
    /\ HasConnection(id)
    /\ connections[id].client
    /\ LET got == HandleFrame(PeerBytes(fin, opcode, payload))
           call == [Call("frame", id, NoRoom) EXCEPT
                       !.input = <<IF fin THEN 1 ELSE 0, opcode, Len(payload)>>]
           active == [connections EXCEPT ![id].lastActivity = now]
       IN IF got.status = "crash"
          THEN /\ proc' = "crashed"
               /\ last' = call
               /\ connections' = active
               /\ UNCHANGED emitted
          ELSE IF got.status = "none" \/ ~Dispatched(got.opcode)
          THEN /\ proc' = "running"
               /\ last' = call
               /\ connections' = active
               /\ UNCHANGED emitted
          ELSE \E outcome \in (IF throws THEN {"running", "crashed"} ELSE {"running"}) :
               /\ proc' = outcome
               /\ last' = [Handled(call, id, got) EXCEPT
                              !.threw = throws,
                              !.order = IF got.opcode = WS_CLOSE /\ outcome = "crashed"
                                        THEN <<"write", "event">> ELSE @]
               /\ connections' =
                     IF got.opcode = WS_PONG THEN [active EXCEPT ![id].isAlive = TRUE]
                     ELSE IF got.opcode # WS_CLOSE THEN active
                     ELSE IF outcome = "crashed"
                          THEN [active EXCEPT ![id] = [ConnClose(@) EXCEPT !.rooms = <<>>]]
                          ELSE OnDisconnect(active, id)
               /\ emitted' = IF got.opcode = WS_CLOSE
                             THEN EmitDisconnect(emitted, id) ELSE emitted
    /\ UNCHANGED <<nextId, rooms, now, fanout, threads>>
    /\ UNCHANGED codecVars
    /\ UNCHANGED srvVars

\* WebSocketConnection::OnRead with nread < 0 on connection id, whose handle is
\* still read from: UV_EOF (eof) or another error
ReadError(id, eof) ==
    /\ proc = "running"
    /\ HasConnection(id)
    /\ connections[id].client
    /\ connections' = [connections EXCEPT ![id] = ConnClose(@)]
    /\ last' = [Call("readError", id, NoRoom) EXCEPT
                   !.input = <<IF eof THEN 1 ELSE 0>>,
                   !.frames = IF eof
                              THEN CloseWrites(connections[id], id, 1000,
                                               "Connection closed by client")
                              ELSE CloseWrites(connections[id], id, 1002, "Protocol error"),
                   !.closed = CloseHandles(connections[id], id)]
    /\ UNCHANGED <<proc, nextId, rooms>>
    /\ UNCHANGED codecVars
    /\ UNCHANGED runVars
    /\ UNCHANGED srvVars

\* the ids of a set in ascending order (the order in which a loop over
\* connections_ is taken to visit them)
RECURSIVE SortedIds(_)
SortedIds(S) ==
    IF S = {} THEN <<>>
    ELSE LET least == CHOOSE x \in S : \A y \in S : x <= y
         IN <<least>> \o SortedIds(S \ {least})

\* CloseConnectionById(id, code, reason) for each id of a list, on the
\* connections_ map: the map afterwards, the Close frames written and the
\* handles closed
RECURSIVE CloseEach(_, _)
CloseEach(cs, ids) ==
    IF ids = <<>> THEN cs
    ELSE CloseEach(IF Head(ids) \in DOMAIN cs
                   THEN [cs EXCEPT ![Head(ids)] = ConnClose(@)] ELSE cs,
                   Tail(ids))

RECURSIVE CloseEachWrites(_, _, _, _)
CloseEachWrites(cs, ids, code, reason) ==
    IF ids = <<>> THEN <<>>
    ELSE (IF Head(ids) \in DOMAIN cs
          THEN CloseWrites(cs[Head(ids)], Head(ids), code, reason) ELSE <<>>)
         \o CloseEachWrites(cs, Tail(ids), code, reason)

RECURSIVE CloseEachHandles(_, _)
CloseEachHandles(cs, ids) ==
    IF ids = <<>> THEN <<>>
    ELSE (IF Head(ids) \in DOMAIN cs THEN CloseHandles(cs[Head(ids)], Head(ids)) ELSE <<>>)
         \o CloseEachHandles(cs, Tail(ids))

\* WebSocketServer::Stop: a no-op on a stopped server; otherwise
\* CloseConnectionById(id, 1001, "Server shutting down") for every registered
\* id (each call takes mutex_ and then, in GetConnection, takes it again), then
\* the listening handle is closed and isRunning_ cleared.  The registries are
\* left as they are.
Stop ==
    /\ proc = "running"
    /\ IF ~isRunning
       THEN /\ last' = [Call("stop", 0, NoRoom) EXCEPT !.msg = "ignored"]
            /\ UNCHANGED <<proc, connections, isRunning>>
       ELSE LET ids == SortedIds(DOMAIN connections)
            IN \/ /\ ids # <<>>
                  /\ proc' = "hung"
                  /\ last' = Call("stop", 0, NoRoom)
                  /\ UNCHANGED <<connections, isRunning>>
               \/ /\ proc' = "running"
                  /\ connections' = CloseEach(connections, ids)
                  /\ isRunning' = FALSE
                  /\ last' = [Call("stop", 0, NoRoom) EXCEPT
                                 !.msg = "stopped",
                                 !.frames = CloseEachWrites(connections, ids, 1001,
                                                            "Server shutting down"),
                                 !.closed = CloseEachHandles(connections, ids)]
    /\ UNCHANGED <<nextId, rooms, maxConnections>>
    /\ UNCHANGED codecVars
    /\ UNCHANGED runVars

\* the system clock moves on by a millisecond
Tick ==
    /\ proc = "running"
    /\ now < MaxClock
    /\ now' = now + 1
    /\ last' = Call("tick", 0, NoRoom)
    /\ UNCHANGED <<proc, nextId, connections, rooms, fanout, emitted, threads>>
    /\ UNCHANGED codecVars
    /\ UNCHANGED srvVars

\* the connections DisconnectInactiveConnections collects under mutex_:
\* now - lastActivity > threshold
Inactive(cs, threshold) ==
    {id \in DOMAIN cs : now - cs[id].lastActivity > threshold}

\* WebSocketServer::DisconnectInactiveConnections: once the ids are collected
\* and mutex_ is released, CloseConnectionById(id, 1001, "Connection timeout")
\* for each (which takes mutex_ and then, in GetConnection, takes it again)
DisconnectInactiveConnections(threshold) ==
    /\ proc = "running"
    /\ LET ids == SortedIds(Inactive(connections, threshold))
           call == [Call("disconnectInactiveConnections", 0, NoRoom) EXCEPT !.input = ids]
       IN \/ /\ ids # <<>>
             /\ proc' = "hung"
             /\ last' = call
             /\ UNCHANGED connections
          \/ /\ proc' = "running"
             /\ connections' = CloseEach(connections, ids)
             /\ last' = [call EXCEPT
                            !.frames = CloseEachWrites(connections, ids, 1001,
                                                       "Connection timeout"),
                            !.closed = CloseEachHandles(connections, ids)]
    /\ UNCHANGED <<nextId, rooms>>
    /\ UNCHANGED codecVars
    /\ UNCHANGED runVars
    /\ UNCHANGED srvVars

\* WebSocketConnection::Send / SendBinary / Ping on the object c of connection
\* id: the ids written to (none once client_ is null)
SendWrites(c, id) == IF c.client THEN <<id>> ELSE <<>>

\* WebSocketServer::Send -> WebSocketConnection::Send
Send(id, m) ==
    /\ proc = "running"
    /\ last' = [Call("send", id, NoRoom) EXCEPT
                   !.msg = m,
                   !.sent = IF HasConnection(id) THEN SendWrites(connections[id], id) ELSE <<>>]
    /\ UNCHANGED <<proc, nextId, connections, rooms>>
    /\ UNCHANGED codecVars
    /\ UNCHANGED runVars
    /\ UNCHANGED srvVars

\* WebSocketServer::SendBinary -> WebSocketConnection::SendBinary
SendBinary(id, m) ==
    /\ proc = "running"
    /\ last' = [Call("sendBinary", id, NoRoom) EXCEPT
                   !.msg = m,
                   !.sent = IF HasConnection(id) THEN SendWrites(connections[id], id) ELSE <<>>]
    /\ UNCHANGED <<proc, nextId, connections, rooms>>
    /\ UNCHANGED codecVars
    /\ UNCHANGED runVars
    /\ UNCHANGED srvVars

\* WebSocketServer::Ping -> WebSocketConnection::Ping: mutex_ is taken, then
\* GetConnection takes it again
Ping(id) ==
    /\ proc = "running"
    /\ \/ /\ proc' = "hung"
          /\ last' = Call("ping", id, NoRoom)
       \/ /\ proc' = "running"
          /\ last' = [Call("ping", id, NoRoom) EXCEPT
                         !.frames = IF HasConnection(id) /\ connections[id].client
                                    THEN <<Wrote(id, WS_PING, 0, "", <<>>)>> ELSE <<>>]
    /\ UNCHANGED <<nextId, connections, rooms>>
    /\ UNCHANGED codecVars
    /\ UNCHANGED runVars
    /\ UNCHANGED srvVars

\* WebSocketServer::SetAuthenticated: mutex_ is taken, then GetConnection takes
\* it again
SetAuthenticated(id, authenticated) ==
    /\ proc = "running"
    /\ \/ /\ proc' = "hung"
          /\ UNCHANGED connections
       \/ /\ proc' = "running"
          /\ connections' = IF HasConnection(id)
                            THEN [connections EXCEPT ![id].isAuthenticated = authenticated]
                            ELSE connections
    /\ last' = [Call("setAuthenticated", id, NoRoom) EXCEPT
                   !.input = <<IF authenticated THEN 1 ELSE 0>>]
    /\ UNCHANGED <<nextId, rooms>>
    /\ UNCHANGED codecVars
    /\ UNCHANGED runVars
    /\ UNCHANGED srvVars

\* the loop of WebSocketServer::Broadcast / BroadcastBinary over connections_
RECURSIVE SendToAll(_, _, _)
SendToAll(cs, ids, excludeId) ==
    IF ids = <<>> THEN <<>>
    ELSE (IF Head(ids) # excludeId THEN SendWrites(cs[Head(ids)], Head(ids)) ELSE <<>>)
         \o SendToAll(cs, Tail(ids), excludeId)

\* WebSocketServer::Broadcast
Broadcast(m, excludeId) ==
    /\ proc = "running"
    /\ last' = [Call("broadcast", excludeId, NoRoom) EXCEPT
                   !.msg = m,
                   !.sent = SendToAll(connections, SortedIds(DOMAIN connections), excludeId)]
    /\ UNCHANGED <<proc, nextId, connections, rooms>>
    /\ UNCHANGED codecVars
    /\ UNCHANGED runVars
    /\ UNCHANGED srvVars

\* WebSocketServer::BroadcastBinary
BroadcastBinary(m, excludeId) ==
    /\ proc = "running"
    /\ last' = [Call("broadcastBinary", excludeId, NoRoom) EXCEPT
                   !.msg = m,
                   !.sent = SendToAll(connections, SortedIds(DOMAIN connections), excludeId)]
    /\ UNCHANGED <<proc, nextId, connections, rooms>>
    /\ UNCHANGED codecVars
    /\ UNCHANGED runVars
    /\ UNCHANGED srvVars

\* a Close payload (code 1000, no reason), and the shortest payload a control
\* frame must not carry
FramePayloads == {<<>>, <<3, 232>>, Pattern(126, 1)}

NextFrames ==
    \/ Start
    \/ OnConnection
    \/ \E id \in 1..MaxConn, fin \in BOOLEAN, opcode \in Opcodes, payload \in FramePayloads,
          throws \in BOOLEAN :
            OnFrame(id, fin, opcode, payload, throws)
    \/ \E id \in 1..MaxConn, eof \in BOOLEAN : ReadError(id, eof)

SpecFrames == Init /\ [][NextFrames]_vars

\* whole frames with FIN set and a short payload, and the handlers they reach
DispatchPayloads == {<<>>, <<3, 232>>}

NextDispatch ==
    \/ Start
    \/ OnConnection
    \/ \E id \in 1..MaxConn, opcode \in Opcodes, payload \in DispatchPayloads, throws \in BOOLEAN :
            OnFrame(id, TRUE, opcode, payload, throws)
    \/ \E id \in 1..MaxConn, eof \in BOOLEAN : ReadError(id, eof)

SpecDispatch == Init /\ [][NextDispatch]_vars

\* Close frames of a peer: without a payload, with one byte, with a status
\* code (1000), with a status code (1001) and a reason; and text frames
ClosePayloads == {<<>>, <<3>>, <<3, 232>>, <<3, 233, 104>>}

NextPeerClose ==
    \/ Start
    \/ OnConnection
    \/ \E id \in 1..MaxConn, opcode \in {WS_TEXT, WS_CLOSE}, payload \in ClosePayloads,
          throws \in BOOLEAN :
            OnFrame(id, TRUE, opcode, payload, throws)

SpecPeerClose == Init /\ [][NextPeerClose]_vars

\* frames read on some connections while others are closed by the server, by
\* a read error or by their peer
NextForward ==
    \/ Start
    \/ OnConnection
    \/ \E id \in 1..MaxConn, opcode \in Opcodes : OnFrame(id, TRUE, opcode, <<>>, FALSE)
    \/ \E id \in 1..MaxConn : CloseConnection(id)
    \/ \E id \in 1..MaxConn, eof \in BOOLEAN : ReadError(id, eof)
    \/ \E id \in 1..MaxConn : Ping(id)

SpecForward == Init /\ [][NextForward]_vars

\* WebSocketServer::SetMaxConnections
SetMaxConnections(n) ==
    /\ proc = "running"
    /\ maxConnections' = n
    /\ last' = [Call("setMaxConnections", 0, NoRoom) EXCEPT !.input = <<n>>]
    /\ UNCHANGED <<proc, nextId, connections, rooms, isRunning>>
    /\ UNCHANGED codecVars
    /\ UNCHANGED runVars

\* Cleanup without its loop over the connection ids: the registries are
\* cleared with the connections still open
Cleanup_ClearsOnly ==
    /\ proc = "running"
    /\ IF ~isRunning
       THEN /\ last' = [Call("cleanup", 0, NoRoom) EXCEPT !.msg = "ignored"]
            /\ UNCHANGED <<proc, connections, rooms, isRunning>>
       ELSE /\ isRunning' = FALSE
            /\ \E outcome \in {"running", "crashed"} : proc' = outcome
            /\ connections' = <<>>
            /\ rooms' = <<>>
            /\ last' = [Call("cleanup", 0, NoRoom) EXCEPT !.msg = "stopped"]
    /\ UNCHANGED <<nextId, maxConnections>>
    /\ UNCHANGED codecVars
    /\ UNCHANGED runVars

\* WebSocketServer::Cleanup: a no-op on a stopped server; otherwise mutex_ is
\* taken by a lock_guard and isRunning_ cleared, mutex_ is unlocked by hand,
\* CloseConnectionById(id, 1001, "Server cleanup") runs for every registered id
\* (relocking mutex_ as in Stop), both registries are cleared, and on the way
\* out the first lock_guard unlocks a mutex that is no longer locked
Cleanup ==
    /\ proc = "running"
    /\ IF ~isRunning
       THEN /\ last' = [Call("cleanup", 0, NoRoom) EXCEPT !.msg = "ignored"]
            /\ UNCHANGED <<proc, connections, rooms, isRunning>>
       ELSE LET ids == SortedIds(DOMAIN connections)
            IN /\ isRunning' = FALSE
               /\ \/ /\ ids # <<>>
                     /\ proc' = "hung"
                     /\ last' = Call("cleanup", 0, NoRoom)
                     /\ UNCHANGED <<connections, rooms>>
                  \/ /\ \E outcome \in {"running", "crashed"} : proc' = outcome
                     /\ connections' = <<>>
                     /\ rooms' = <<>>
                     /\ last' = [Call("cleanup", 0, NoRoom) EXCEPT
                                    !.msg = "stopped",
                                    !.frames = CloseEachWrites(connections, ids, 1001,
                                                               "Server cleanup"),
                                    !.closed = CloseEachHandles(connections, ids)]
    /\ UNCHANGED <<nextId, maxConnections>>
    /\ UNCHANGED codecVars
    /\ UNCHANGED runVars

\* the limits setMaxConnections is called with
ConnLimits == 0..(MaxConn - 1)

\* the server's run state, admission and shutdown
NextServer ==
    \/ Start
    \/ Stop
    \/ Cleanup
    \/ \E n \in ConnLimits : SetMaxConnections(n)
    \/ OnConnection
    \/ \E id \in 1..MaxConn : HandleClose(id)
    \/ \E id \in 1..MaxConn : CloseConnection(id)

SpecServer == Init /\ [][NextServer]_vars

\* every way a connection gets closed, and the sends that may follow
NextLifecycle ==
    \/ Start
    \/ Stop
    \/ OnConnection
    \/ \E id \in 1..MaxConn : CloseConnection(id)
    \/ \E id \in 1..MaxConn, eof \in BOOLEAN : ReadError(id, eof)
    \/ \E id \in 1..MaxConn : HandleClose(id)
    \/ \E id \in 1..MaxConn, m \in Messages : Send(id, m)
    \/ \E id \in 1..MaxConn, m \in Messages : SendBinary(id, m)
    \/ \E id \in 1..MaxConn : Ping(id)
    \/ \E m \in Messages, excludeId \in 0..MaxConn : Broadcast(m, excludeId)
    \/ \E m \in Messages, excludeId \in 0..MaxConn : BroadcastBinary(m, excludeId)

SpecLifecycle == Init /\ [][NextLifecycle]_vars

\* every way a connection gets closed, as time passes
NextClose ==
    \/ Start
    \/ Stop
    \/ OnConnection
    \/ Tick
    \/ \E id \in 1..MaxConn : CloseConnection(id)
    \/ \E threshold \in Thresholds : DisconnectInactiveConnections(threshold)
    \/ \E id \in 1..MaxConn, eof \in BOOLEAN : ReadError(id, eof)
    \/ \E id \in 1..MaxConn : HandleClose(id)

SpecClose == Init /\ [][NextClose]_vars

\* the same, with the loop thread delivering what the transport has for it:
\* a peer whose handle is still read from sends its Close frame in the end,
\* and the frame is read
SpecCloseFair ==
    /\ Init
    /\ [][NextClose]_vars
    /\ \A id \in 1..MaxConn : WF_vars(HandleClose(id))

\* ------------------------------------------------------------ a room broadcast on a second thread
\* the members as the loop of WebSocketRoom::Broadcast will visit them: the
\* pointer, and the id of the connection it points to when the room's mutex_
\* is taken (0: the object is destroyed already)
Members(name) ==
    [i \in 1..Len(rooms[name].connections) |->
        [addr |-> rooms[name].connections[i], id |-> IdAt(rooms[name].connections[i])]]

\* WebSocketServer::BroadcastToRoom / BroadcastBinaryToRoom called on a thread
\* other than the loop's, up to the lock_guard of WebSocketRoom::Broadcast /
\* BroadcastBinary: the room is looked up, the excluded pointer is fetched and
\* the room's mutex_ is taken
RoomBroadcastBegin(name, m, excludeId, binary) ==
    /\ proc = "running"
    /\ fanout = NoFanout
    /\ name \in DOMAIN rooms
    /\ binary \/ Len(rooms[name].messageHistory) < MaxStored
    /\ fanout' = [op |-> IF binary THEN "broadcastBinaryToRoom" ELSE "broadcastToRoom",
                  room |-> name, msg |-> m, exclude |-> ExcludePtr(excludeId),
                  todo |-> Members(name), sent |-> <<>>]
    /\ last' = [Call("roomBroadcastBegin", excludeId, name) EXCEPT !.msg = m]
    /\ UNCHANGED <<proc, nextId, connections, rooms, now, emitted, threads>>
    /\ UNCHANGED codecVars
    /\ UNCHANGED srvVars

\* one turn of the loop: conn->Send / SendBinary on the next member unless it
\* is the excluded pointer; on a destroyed object that ends the process or
\* reads stale memory and writes nothing
RoomBroadcastSend ==
    /\ proc = "running"
    /\ fanout # NoFanout
    /\ fanout.todo # <<>>
    /\ LET member == Head(fanout.todo)
           live == LiveAt(member.addr)
           wrote == IF member.addr # fanout.exclude /\ live # {}
                       /\ connections[IdAt(member.addr)].client
                    THEN <<IdAt(member.addr)>> ELSE <<>>
       IN /\ \E outcome \in (IF member.addr # fanout.exclude /\ live = {}
                             THEN {"running", "crashed"} ELSE {"running"}) :
                proc' = outcome
          /\ fanout' = [fanout EXCEPT !.todo = Tail(@), !.sent = @ \o wrote]
          /\ last' = [Call("roomBroadcastSend", member.id, fanout.room) EXCEPT
                         !.msg = fanout.msg, !.sent = wrote]
    /\ UNCHANGED <<nextId, connections, rooms, now, emitted, threads>>
    /\ UNCHANGED codecVars
    /\ UNCHANGED srvVars

\* after the loop: Broadcast calls StoreMessage, which takes the room's mutex_
\* again; BroadcastBinary stores nothing; the lock_guard then releases mutex_.
\* The room object is destroyed if a leave has erased the room meanwhile.
RoomBroadcastEnd ==
    /\ proc = "running"
    /\ fanout # NoFanout
    /\ fanout.todo = <<>>
    /\ IF fanout.op = "broadcastBinaryToRoom"
       THEN UNCHANGED <<proc, rooms>>
       ELSE \/ /\ proc' = "hung"
               /\ UNCHANGED rooms
            \/ /\ proc' = "running"
               /\ rooms' = IF fanout.room \in DOMAIN rooms
                           THEN Put(rooms, fanout.room,
                                    StoreMessage(rooms[fanout.room], fanout.msg, DefaultMaxHistory))
                           ELSE rooms
    /\ fanout' = NoFanout
    /\ last' = [Call(fanout.op, 0, fanout.room) EXCEPT !.msg = fanout.msg, !.sent = fanout.sent]
    /\ UNCHANGED <<nextId, connections, now, emitted, threads>>
    /\ UNCHANGED codecVars
    /\ UNCHANGED srvVars

\* the loop thread goes on while the broadcast holds the room's mutex_: only a
\* join to that room has to wait for it (AddConnection takes the same mutex_)
NextFanout ==
    \/ Start
    \/ OnConnection
    \/ \E id \in 1..MaxConn, name \in RoomNames : fanout.room # name /\ JoinRoom(id, name)
    \/ \E id \in 1..MaxConn : HandleClose(id)
    \/ \E name \in RoomNames, excludeId \in 0..MaxConn, binary \in BOOLEAN :
            RoomBroadcastBegin(name, "hi", excludeId, binary)
    \/ RoomBroadcastSend
    \/ RoomBroadcastEnd

SpecFanout == Init /\ [][NextFanout]_vars

\* ------------------------------------------------------------ joinRoom and leaveRoom on threads of their own
\* WebSocketServer::JoinRoom up to the room pointer: GetConnection,
\* connection->JoinRoom, and in OnRoomJoin GetRoom(roomName), which creates the
\* room under the server's mutex_ if there is none and hands back a raw pointer
JoinRoomBegin(id, name) ==
    /\ proc = "running"
    /\ threads.join = NoThread
    /\ IF ~HasConnection(id)
       THEN UNCHANGED <<connections, rooms, threads>>
       ELSE /\ connections' = [connections EXCEPT ![id].rooms = ConnJoinRoom(@, name)]
            /\ rooms' = Put(rooms, name, GetRoom(rooms, name))
            /\ threads' = [threads EXCEPT !.join =
                              [pc |-> "add", id |-> id, addr |-> connections[id].addr,
                               room |-> name, stale |-> FALSE]]
    /\ last' = Call("joinRoomBegin", id, name)
    /\ UNCHANGED <<proc, nextId, now, fanout, emitted>>
    /\ UNCHANGED codecVars
    /\ UNCHANGED srvVars

\* the rest of OnRoomJoin: room->AddConnection under the room's mutex_, then
\* the roomJoin callback.  On a room erased meanwhile AddConnection works on a
\* destroyed object: the process ends, or the write goes to freed memory.
JoinRoomAdd ==
    /\ proc = "running"
    /\ threads.join.pc = "add"
    /\ LET t == threads.join
       IN /\ IF t.stale
             THEN /\ \E outcome \in {"running", "crashed"} : proc' = outcome
                  /\ UNCHANGED rooms
             ELSE /\ proc' = "running"
                  /\ rooms' = Put(rooms, t.room, AddConnection(rooms[t.room], t.addr))
          /\ last' = [Call("joinRoomReturn", t.id, t.room) EXCEPT
                         !.events = IF proc' = "running"
                                    THEN <<Event("roomJoin", t.id, 0, t.room, <<>>)>>
                                    ELSE <<>>]
    /\ threads' = [threads EXCEPT !.join = NoThread]
    /\ UNCHANGED <<nextId, connections, now, fanout, emitted>>
    /\ UNCHANGED codecVars
    /\ UNCHANGED srvVars

\* WebSocketServer::LeaveRoom up to the room pointer: GetConnection,
\* connection->LeaveRoom, and in OnRoomLeave GetRoom(roomName, false); the call
\* returns if there is no such room
LeaveRoomBegin(id, name) ==
    /\ proc = "running"
    /\ threads.leave = NoThread
    /\ IF ~HasConnection(id)
       THEN UNCHANGED <<connections, threads>>
       ELSE /\ connections' = [connections EXCEPT ![id].rooms = ConnLeaveRoom(@, name)]
            /\ threads' = IF name \notin DOMAIN rooms THEN threads
                          ELSE [threads EXCEPT !.leave =
                                   [pc |-> "remove", id |-> id, addr |-> connections[id].addr,
                                    room |-> name, stale |-> FALSE]]
    /\ last' = Call("leaveRoomBegin", id, name)
    /\ UNCHANGED <<proc, nextId, rooms, now, fanout, emitted>>
    /\ UNCHANGED codecVars
    /\ UNCHANGED srvVars

\* room->RemoveConnection under the room's mutex_
LeaveRoomRemove ==
    /\ proc = "running"
    /\ threads.leave.pc = "remove"
    /\ LET t == threads.leave
       IN /\ rooms' = Put(rooms, t.room, RemoveConnection(rooms[t.room], t.addr))
          /\ last' = Call("leaveRoomRemove", t.id, t.room)
    /\ threads' = [threads EXCEPT !.leave.pc = "count"]
    /\ UNCHANGED <<proc, nextId, connections, now, fanout, emitted>>
    /\ UNCHANGED codecVars
    /\ UNCHANGED srvVars

\* room->GetConnectionCount() == 0, read under the room's mutex_ and released;
\* with members left the roomLeave callback is called and the call returns
LeaveRoomCount ==
    /\ proc = "running"
    /\ threads.leave.pc = "count"
    /\ LET t == threads.leave
       IN IF Len(rooms[t.room].connections) = 0
          THEN /\ threads' = [threads EXCEPT !.leave.pc = "erase"]
               /\ last' = Call("leaveRoomCount", t.id, t.room)
          ELSE /\ threads' = [threads EXCEPT !.leave = NoThread]
               /\ last' = [Call("leaveRoomReturn", t.id, t.room) EXCEPT
                              !.events = <<Event("roomLeave", t.id, 0, t.room, <<>>)>>]
    /\ UNCHANGED <<proc, nextId, connections, rooms, now, fanout, emitted>>
    /\ UNCHANGED codecVars
    /\ UNCHANGED srvVars

\* rooms_.erase(roomName) under the server's mutex_, which destroys the room
\* object whatever it holds by now, then the roomLeave callback
LeaveRoomErase ==
    /\ proc = "running"
    /\ threads.leave.pc = "erase"
    /\ LET t == threads.leave
       IN /\ rooms' = Drop(rooms, t.room)
          /\ threads' = [leave |-> NoThread,
                         join |-> IF threads.join.pc = "add" /\ threads.join.room = t.room
                                  THEN [threads.join EXCEPT !.stale = TRUE]
                                  ELSE threads.join]
          /\ last' = [Call("leaveRoomReturn", t.id, t.room) EXCEPT
                         !.events = <<Event("roomLeave", t.id, 0, t.room, <<>>)>>]
    /\ UNCHANGED <<proc, nextId, connections, now, fanout, emitted>>
    /\ UNCHANGED codecVars
    /\ UNCHANGED srvVars

\* a join and a leave, each on its own thread, in every interleaving of their
\* critical sections; the loop thread's own joins come before
NextRace ==
    \/ Start
    \/ OnConnection
    \/ \E id \in 1..MaxConn, name \in RoomNames : threads = NoThreads /\ JoinRoom(id, name)
    \/ \E id \in 1..MaxConn, name \in RoomNames : JoinRoomBegin(id, name)
    \/ JoinRoomAdd
    \/ \E id \in 1..MaxConn, name \in RoomNames : LeaveRoomBegin(id, name)
    \/ LeaveRoomRemove
    \/ LeaveRoomCount
    \/ LeaveRoomErase

SpecRace == Init /\ [][NextRace]_vars

\* ------------------------------------------------------------ the mutexes a call takes
\* one lock() or unlock() of a std::mutex: "server" is WebSocketServer::mutex_,
\* "room" the mutex_ of the room the call works on, "connection" the mutex_ of
\* the connection
Lock(m) == [do |-> "lock", mutex |-> m]
Unlock(m) == [do |-> "unlock", mutex |-> m]

\* GetConnection and GetRoom: a lock_guard on the server's mutex_
GetConnectionLocks == <<Lock("server"), Unlock("server")>>

\* CloseConnectionById: a lock_guard on the server's mutex_ around GetConnection
CloseConnectionByIdLocks ==
    <<Lock("server")>> \o GetConnectionLocks \o <<Unlock("server")>>

RECURSIVE Times(_, _)
Times(n, trace) == IF n = 0 THEN <<>> ELSE trace \o Times(n - 1, trace)

\* the lock and unlock calls the calling thread makes, in order, in a public
\* method that finds n connections registered (and, for the methods that take
\* an id or a room name, finds it)
LockTrace(op, n) ==
    IF op \in {"closeConnection", "ping", "setAuthenticated", "setMaxRoomSize"}
    THEN CloseConnectionByIdLocks
    ELSE IF op = "joinRoom"
    THEN GetConnectionLocks \o <<Lock("connection"), Unlock("connection")>>
         \o GetConnectionLocks \o <<Lock("room"), Unlock("room")>>
    ELSE IF op = "broadcastToRoom"
    THEN GetConnectionLocks \o <<Lock("room"), Lock("room"), Unlock("room"), Unlock("room")>>
    ELSE IF op = "broadcastBinaryToRoom"
    THEN GetConnectionLocks \o <<Lock("room"), Unlock("room")>>
    ELSE IF op = "cleanup"
    THEN <<Lock("server"), Unlock("server")>> \o Times(n, CloseConnectionByIdLocks)
         \o <<Lock("server"), Unlock("server"), Unlock("server")>>
    ELSE <<>>

\* what goes wrong first on the way through a trace, held being the mutexes
\* the thread owns: a lock of a mutex it owns, an unlock of one it does not
RECURSIVE Misuse(_, _)
Misuse(trace, held) ==
    IF trace = <<>> THEN "none"
    ELSE LET e == Head(trace)
         IN IF e.do = "lock"
            THEN (IF e.mutex \in held THEN "relock"
                  ELSE Misuse(Tail(trace), held \cup {e.mutex}))
            ELSE (IF e.mutex \notin held THEN "unlock of a mutex not held"
                  ELSE Misuse(Tail(trace), held \ {e.mutex}))

\* the public methods that take a mutex while they hold it, and the others
NextLocks ==
    \/ Start
    \/ OnConnection
    \/ \E name \in RoomNames : JoinRoom(1, name)
    \/ \E id \in 1..MaxConn : CloseConnection(id)
    \/ \E id \in 1..MaxConn : Ping(id)
    \/ SetAuthenticated(1, TRUE)
    \/ \E name \in RoomNames : SetMaxRoomSize(name, 0)
    \/ \E name \in RoomNames : BroadcastToRoom(name, "hi", 0)
    \/ \E name \in RoomNames : BroadcastBinaryToRoom(name, "hi", 0)
    \/ Cleanup

SpecLocks == Init /\ [][NextLocks]_vars

\* the calls that take a connection id, on ids registered, erased and never
\* handed out
NextById ==
    \/ Start
    \/ OnConnection
    \/ \E id \in 1..MaxConn : HandleClose(id)
    \/ \E id \in 1..MaxConn, m \in Messages : Send(id, m)
    \/ \E id \in 1..MaxConn, m \in Messages : SendBinary(id, m)
    \/ \E id \in 1..MaxConn : CloseConnection(id)
    \/ \E id \in 1..MaxConn, name \in RoomNames : JoinRoom(id, name)
    \/ \E id \in 1..MaxConn, name \in RoomNames : LeaveRoom(id, name)
    \/ \E id \in 1..MaxConn : LeaveAllRooms(id)
    \/ \E id \in 1..MaxConn, authenticated \in BOOLEAN : SetAuthenticated(id, authenticated)
    \/ \E id \in 1..MaxConn : Ping(id)

SpecById == Init /\ [][NextById]_vars

\* the inactivity sweep over connections of different ages, some of them read
\* from in the meantime
NextSweep ==
    \/ Start
    \/ OnConnection
    \/ Tick
    \/ \E id \in 1..MaxConn, name \in RoomNames : JoinRoom(id, name)
    \/ \E id \in 1..MaxConn, opcode \in {WS_TEXT, WS_PONG} : OnFrame(id, TRUE, opcode, <<>>, FALSE)
    \/ \E threshold \in Thresholds : DisconnectInactiveConnections(threshold)

SpecSweep == Init /\ [][NextSweep]_vars

\* the encoder run with mask = true on short payloads, the bytes then delivered
\* whole to the decoder
MaxMasked == 3

MaskedPayloads == SeqsUpTo(ByteSet, MaxMasked)

\* SendFrame(opcode, data, length, true): one frame, put on the wire
SendMasked(opcode, payload) ==
    /\ proc = "running"
    /\ sentFrames = <<>>
    /\ sentFrames' = <<[opcode |-> opcode, payload |-> payload]>>
    /\ stream' = SendFrame(opcode, payload, TRUE)
    /\ UNCHANGED <<reads, received>>
    /\ UNCHANGED regVars
    /\ UNCHANGED srvVars
    /\ UNCHANGED runVars

NextMasked ==
    \/ \E opcode \in Opcodes, payload \in MaskedPayloads : SendMasked(opcode, payload)
    \/ OnRead(Len(stream))

SpecMasked == Init /\ [][NextMasked]_vars

\* frames as a client puts them on the wire: the MASK bit set, a 4-byte key
\* after the length field, then the payload bytes as they travel
MaskKeys == {<<0, 0, 0, 0>>, <<1, 2, 3, 4>>, <<255, 129, 7, 64>>}

WireSizes == {0, 1, 4, 5, 126}

\* the peer sends one frame with the MASK bit set: the header (which the
\* length field ends), the key, the bytes wire
PeerSendMasked(opcode, wire, key) ==
    /\ proc = "running"
    /\ sentFrames = <<>>
    /\ sentFrames' = <<[opcode |-> opcode, payload |-> wire, key |-> key]>>
    /\ stream' = LET bytes == SendFrame(opcode, wire, TRUE)
                 IN SubSeq(bytes, 1, Len(bytes) - Len(wire)) \o key \o wire
    /\ UNCHANGED <<reads, received>>
    /\ UNCHANGED regVars
    /\ UNCHANGED srvVars
    /\ UNCHANGED runVars

\* one frame, with the MASK bit set or clear, delivered whole
NextUnmask ==
    \/ \E opcode \in Opcodes, n \in WireSizes, seed \in Seeds, key \in MaskKeys :
            PeerSendMasked(opcode, Pattern(n, seed), key)
    \/ \E opcode \in Opcodes, n \in WireSizes, seed \in Seeds :
            PeerSend(opcode, Pattern(n, seed), 1)
    \/ OnRead(Len(stream))

SpecUnmask == Init /\ [][NextUnmask]_vars

\* ------------------------------------------------------------ claims
\* membership as the room records it: the connection's pointer is in the
\* room's connections_ (what getRoomConnections lists)
IsMember(id, name) ==
    /\ HasConnection(id)
    /\ name \in DOMAIN rooms
    /\ connections[id].addr \in Range(rooms[name].connections)

Without(s, x) == LET Keep(y) == y # x IN SelectSeq(s, Keep)

\* C1: in every reachable state, for every registered connection c and room
\* r, r is in c's own room set iff c's id is listed by getRoomConnections(r).
C1_RoomsMirrorMembers ==
    \A id \in DOMAIN connections, name \in RoomNames :
        IsInRoom(id, name) <=> id \in Range(GetRoomConnections(name))

\* C2: in every reachable state, every room whose maxSize is greater than 0
\* has at most maxSize members.
C2_RoomWithinMaxSize ==
    \A name \in DOMAIN rooms :
        rooms[name].maxSize > 0 => Len(rooms[name].connections) <= rooms[name].maxSize

\* a join by a non-member of a full room takes out the head of the member list
\* and appends the joiner
C3_Evicts(id, name) ==
    LET old == rooms[name].connections
    IN (/\ last'.op = "joinRoom" /\ last'.id = id /\ last'.room = name
        /\ HasConnection(id)
        /\ name \in DOMAIN rooms
        /\ rooms[name].maxSize > 0
        /\ Len(old) = rooms[name].maxSize
        /\ ~IsMember(id, name))
       => /\ name \in DOMAIN rooms'
          /\ rooms'[name].connections = Append(Tail(old), connections[id].addr)

\* a step keeps the surviving members of a room in their order and puts new
\* members after them
C3_OrderKept(name) ==
    (name \in DOMAIN rooms /\ name \in DOMAIN rooms')
    => LET old == rooms[name].connections
           new == rooms'[name].connections
           Stays(x) == x \in Range(new)
           kept == SelectSeq(old, Stays)
       IN /\ Len(kept) <= Len(new)
          /\ SubSeq(new, 1, Len(kept)) = kept
          /\ \A i \in (Len(kept) + 1)..Len(new) : new[i] \notin Range(old)

\* C3: a join by a connection that is not in the member list of a room with
\* maxSize > 0 and exactly maxSize members removes the first (earliest joined)
\* member and nobody else and appends the joiner; and every step keeps the
\* surviving members of a room in their order, new members coming last (so
\* that getRoomConnections lists the members in join order).
C3_FifoEviction ==
    [][\A name \in RoomNames :
          /\ C3_OrderKept(name)
          /\ \A id \in 1..MaxConn : C3_Evicts(id, name)]_vars

\* the room was full, its oldest member went and the joiner is listed last
C3_Witness ==
    /\ last.op = "joinRoom"
    /\ last.removed # 0
    /\ IsMember(last.id, last.room)
    /\ rooms[last.room].maxSize = MaxRoomSize
    /\ Len(rooms[last.room].connections) = MaxRoomSize
    /\ GetRoomConnections(last.room)[MaxRoomSize] = last.id
    /\ last.removed \notin Range(rooms[last.room].connections)

\* C4: a join by a connection that is already in the room's member list
\* changes neither any room nor any connection's room set.
C4_JoinIdempotent ==
    [][\A id \in 1..MaxConn, name \in RoomNames :
          (/\ last'.op = "joinRoom" /\ last'.id = id /\ last'.room = name
           /\ IsMember(id, name))
          => (rooms' = rooms /\ connections' = connections)]_vars

\* C5: leaveRoom(c, r) by a registered connection takes exactly c out of r's
\* member list, the others keeping their order; r is erased iff no member is
\* left, and otherwise stays with the remaining members.
C5_LeaveRoom ==
    [][\A id \in 1..MaxConn, name \in RoomNames :
          (/\ last'.op = "leaveRoom" /\ last'.id = id /\ last'.room = name
           /\ HasConnection(id)
           /\ name \in DOMAIN rooms)
          => LET rest == Without(rooms[name].connections, connections[id].addr)
             IN IF rest = <<>>
                THEN name \notin DOMAIN rooms'
                ELSE /\ name \in DOMAIN rooms'
                     /\ rooms'[name] = [rooms[name] EXCEPT !.connections = rest]]_vars

\* a member left a room that keeps other members
C5_Witness ==
    /\ last.op = "leaveRoom"
    /\ HasConnection(last.id)
    /\ last.removed = connections[last.id].addr
    /\ last.room \in DOMAIN rooms
    /\ ~IsMember(last.id, last.room)

\* the connections a broadcast to the room is for: registered, open, listed by
\* the room, and not the excluded id
OpenMembersExcept(name, excludeId) ==
    {id \in DOMAIN connections :
        IsMember(id, name) /\ connections[id].client /\ id # excludeId}

\* the last n elements of a sequence
LastN(s, n) == IF Len(s) <= n THEN s ELSE SubSeq(s, Len(s) - n + 1, Len(s))

\* C6: a broadcast to an existing room writes the message exactly once to
\* every open member of the room other than the excluded id, and to nobody
\* else.
C6_BroadcastDelivers ==
    [][\A name \in RoomNames :
          (/\ last'.op \in {"broadcastToRoom", "broadcastBinaryToRoom"}
           /\ last'.room = name
           /\ name \in DOMAIN rooms)
          => /\ Range(last'.sent) = OpenMembersExcept(name, last'.id)
             /\ Len(last'.sent) = Cardinality(Range(last'.sent))]_vars

\* C7: every broadcast to an existing room that returns leaves the room's
\* history equal to the last min(n, 100) messages broadcast to it: the old
\* history with the message appended, cut to its last 100 entries.
C7_HistoryIsRecentWindow ==
    [][\A name \in RoomNames :
          (/\ last'.op \in {"broadcastToRoom", "broadcastBinaryToRoom"}
           /\ last'.room = name
           /\ name \in DOMAIN rooms
           /\ proc' = "running")
          => /\ name \in DOMAIN rooms'
             /\ rooms'[name].messageHistory =
                    LastN(Append(rooms[name].messageHistory, last'.msg), DefaultMaxHistory)]_vars

\* the number of leading sent frames whose encodings lie within the first n
\* bytes of the wire
RECURSIVE WholeFrames(_, _)
WholeFrames(frames, n) ==
    IF frames = <<>> THEN 0
    ELSE LET size == Len(SendFrame(Head(frames).opcode, Head(frames).payload, FALSE))
         IN IF size <= n THEN 1 + WholeFrames(Tail(frames), n - size) ELSE 0

\* C8: when the bytes of one encoded frame arrive in two or more deliveries,
\* no frame is decoded while bytes are outstanding and exactly the original
\* frame has been decoded once the last byte is delivered.
C8_SplitFrameDecodesOnce ==
    (Len(sentFrames) = 1 /\ reads # <<>>)
    => IF stream # <<>> THEN received = <<>>
       ELSE (Len(reads) >= 2 => received = sentFrames)

\* C9: when the first delivery holds k >= 1 complete frames (and perhaps the
\* start of another), exactly those k frames are decoded from it, in wire
\* order; and the bytes of the started frame are kept, so that a second
\* delivery bringing the rest completes it.
C9_BurstDecodesAll ==
    (reads # <<>> /\ WholeFrames(sentFrames, reads[1]) >= 1)
    => /\ Len(reads) = 1 => received = SubSeq(sentFrames, 1, WholeFrames(sentFrames, reads[1]))
       /\ (Len(reads) = 2 /\ stream = <<>>) => received = sentFrames

C11_MaskedRoundTrip ==
    /\ (Len(sentFrames) = 1 /\ reads = <<>>)
       => /\ stream[2] >= 128
          /\ Len(stream) = 4 + Len(SendFrame(sentFrames[1].opcode, sentFrames[1].payload, FALSE))
    /\ (Len(sentFrames) = 1 /\ reads # <<>>) => received = sentFrames

\* the frame is one the protocol forbids: a control frame with FIN = 0 or with
\* more than 125 bytes of payload
Violates(fin, opcode, payload) ==
    opcode \in {WS_CLOSE, WS_PING, WS_PONG} /\ (~fin \/ Len(payload) > 125)

\* C12: a received control frame with FIN = 0 or a payload above 125 bytes is
\* answered with a Close frame of code 1002 on that connection and an error
\* event, and with no message, binaryMessage, ping or pong event.
C12_ProtocolErrorRejected ==
    [][\A id \in 1..MaxConn, fin \in BOOLEAN, opcode \in Opcodes, payload \in FramePayloads :
          ((\E throws \in BOOLEAN : OnFrame(id, fin, opcode, payload, throws))
           /\ Violates(fin, opcode, payload))
          => /\ \E i \in 1..Len(last'.frames) :
                   /\ last'.frames[i].to = id
                   /\ last'.frames[i].opcode = WS_CLOSE
                   /\ last'.frames[i].code = 1002
             /\ \E i \in 1..Len(last'.events) : last'.events[i].type = "error"
             /\ \A i \in 1..Len(last'.events) :
                   last'.events[i].type \notin {"message", "binaryMessage", "ping", "pong"}]_vars

\* C13: a read error or an unexpected EOF on a connection whose handle is
\* still read from (no close handshake in progress) closes the connection
\* with status code 1005: that is the code of the Close frame written and of
\* the disconnect event emitted, whichever there is.
C13_ReadErrorCloses1005 ==
    [][\A id \in 1..MaxConn :
          (last'.op = "readError" /\ last'.id = id)
          => /\ ~connections'[id].client
             /\ \A i \in 1..Len(last'.frames) :
                   last'.frames[i].opcode = WS_CLOSE => last'.frames[i].code = 1005
             /\ \A i \in 1..Len(last'.events) :
                   last'.events[i].type = "disconnect" => last'.events[i].code = 1005
             /\ \/ \E i \in 1..Len(last'.frames) : last'.frames[i].opcode = WS_CLOSE
                \/ \E i \in 1..Len(last'.events) : last'.events[i].type = "disconnect"]_vars

\* the number of Close frames a call wrote to connection id
RECURSIVE CloseFramesTo(_, _)
CloseFramesTo(id, frames) ==
    IF frames = <<>> THEN 0
    ELSE (IF Head(frames).to = id /\ Head(frames).opcode = WS_CLOSE THEN 1 ELSE 0)
         + CloseFramesTo(id, Tail(frames))

\* the number of uv_close calls it made on the handle of connection id
RECURSIVE HandleClosesOf(_, _)
HandleClosesOf(id, closed) ==
    IF closed = <<>> THEN 0
    ELSE (IF Head(closed) = id THEN 1 ELSE 0) + HandleClosesOf(id, Tail(closed))

\* the step is a call that invoked Close on connection id and returned
CloseInvoked(id) ==
    /\ proc' = "running"
    /\ HasConnection(id)
    /\ \/ last'.op \in {"closeConnection", "readError", "disconnect"} /\ last'.id = id
       \/ last'.op = "stop" /\ isRunning
       \/ last'.op = "disconnectInactiveConnections" /\ id \in Range(last'.input)

\* C14: whatever invokes Close on a connection (closeConnection, the sweep,
\* stop, a received Close frame, a read error): on a connection still open it
\* writes exactly one Close frame and closes the handle exactly once; on a
\* connection already closed no call writes a Close frame, closes the handle
\* or changes the connection.
C14_CloseIdempotent ==
    [][\A id \in 1..MaxConn :
          LET n == CloseFramesTo(id, last'.frames)
              h == HandleClosesOf(id, last'.closed)
          IN IF HasConnection(id) /\ connections[id].client
             THEN /\ n <= 1
                  /\ h = n
                  /\ CloseInvoked(id)
                     => /\ n = 1
                        /\ id \in DOMAIN connections' => ~connections'[id].client
             ELSE /\ n = 0
                  /\ h = 0
                  /\ HasConnection(id)
                     => (id \in DOMAIN connections' /\ connections'[id] = connections[id])]_vars

\* closeConnection has returned on a connection that was closed before: it
\* wrote nothing
C14_Witness ==
    /\ proc = "running"
    /\ last.op = "closeConnection"
    /\ HasConnection(last.id)
    /\ ~connections[last.id].client
    /\ last.frames = <<>>
    /\ last.closed = <<>>

\* C15: once Close has been invoked on a connection, no send, sendBinary,
\* ping or broadcast writes a frame to it, and send and sendBinary hand a
\* failure back to the caller.
C15_NoSendAfterClose ==
    [][\A id \in 1..MaxConn :
          (/\ HasConnection(id)
           /\ ~connections[id].client
           /\ last'.op \in {"send", "sendBinary", "ping", "broadcast", "broadcastBinary"})
          => /\ id \notin Range(last'.sent)
             /\ \A i \in 1..Len(last'.frames) : last'.frames[i].to # id
             /\ (last'.op \in {"send", "sendBinary"} /\ last'.id = id)
                => last'.ret # "undefined"]_vars

\* C16: a transport connection accepted while maxConnections > 0 and the
\* registry holds maxConnections connections or more has its handle closed
\* and an error event emitted, and nothing else: no connection event, no id
\* taken, registries and connections unchanged.
C16_RejectsAtMaxConnections ==
    [][(/\ last'.op = "connection"
        /\ maxConnections > 0
        /\ Cardinality(DOMAIN connections) >= maxConnections)
       => /\ last'.closed = <<0>>
          /\ Len(last'.events) = 1
          /\ last'.events[1].type = "error"
          /\ nextId' = nextId
          /\ connections' = connections
          /\ rooms' = rooms]_vars

\* a connection has just been turned away from a full registry
C16_Witness ==
    /\ last.op = "connection"
    /\ last.id = 0
    /\ last.closed = <<0>>
    /\ maxConnections > 0
    /\ Cardinality(DOMAIN connections) = maxConnections

\* C17: a new connection gets the id the counter stands at, an id greater
\* than that of every connection registered now or before, and the counter
\* only goes up; every other step leaves the ids of the registry among the
\* old ones.
C17_IdsIncreaseNeverReused ==
    [][/\ nextId' >= nextId
       /\ \A id \in DOMAIN connections : id < nextId
       /\ \A id \in DOMAIN connections' \ DOMAIN connections :
             /\ id = nextId
             /\ nextId' > id
       /\ (last'.op = "connection" /\ last'.id # 0)
          => /\ last'.id = nextId
             /\ last'.id \notin DOMAIN connections
             /\ nextId' > nextId]_vars

\* connection 1 was removed from the registry and the next connection got
\* id 2
C17_Witness ==
    /\ last.op = "connection"
    /\ last.id = 2
    /\ DOMAIN connections = {2}
    /\ nextId = 3

\* C18: stop() on a running server returns with the server stopped, having
\* written exactly one Close frame with code 1001 and reason "Server shutting
\* down" to every connection that was open, and to no other.
C18_StopClosesEveryOpen ==
    [][(last'.op = "stop" /\ isRunning)
       => /\ proc' = "running"
          /\ ~isRunning'
          /\ \A id \in 1..MaxConn :
                CloseFramesTo(id, last'.frames)
                    = IF HasConnection(id) /\ connections[id].client THEN 1 ELSE 0
          /\ \A i \in 1..Len(last'.frames) :
                /\ last'.frames[i].code = 1001
                /\ last'.frames[i].reason = "Server shutting down"]_vars

\* C19: once stop() has returned on a server that was running, the
\* connection registry and the room registry are empty.
C19_StopClearsRegistries ==
    [][(last'.op = "stop" /\ isRunning /\ proc' = "running")
       => /\ connections' = <<>>
          /\ rooms' = <<>>]_vars

\* C20: isRunning_ goes from false to true only in a start() whose
\* initialising, binding and listening all succeeded, and from true to false
\* only in a stop() or cleanup(); a start() that fails leaves it false; start()
\* on a running server and stop() on a stopped one change nothing and write no
\* frame.
C20_RunStateMachine ==
    [][/\ (~isRunning /\ isRunning') => (last'.op = "start" /\ last'.msg = "listening")
       /\ (isRunning /\ ~isRunning') => last'.op \in {"stop", "cleanup"}
       /\ (last'.op = "start" /\ ~isRunning /\ last'.msg = "failed") => ~isRunning'
       /\ (last'.op = "start" /\ ~isRunning /\ last'.msg = "listening") => isRunning'
       /\ ((last'.op = "start" /\ isRunning) \/ (last'.op = "stop" /\ ~isRunning))
          => /\ isRunning' = isRunning
             /\ connections' = connections
             /\ rooms' = rooms
             /\ proc' = proc
             /\ last'.frames = <<>>
             /\ last'.closed = <<>>
             /\ last'.sent = <<>>]_vars

\* the server was started, stopped with a connection registered, and started
\* again
C20_Witness ==
    /\ last.op = "start"
    /\ last.msg = "listening"
    /\ isRunning
    /\ \E id \in DOMAIN connections : ~connections[id].client

\* C21: disconnectInactiveConnections(t) closes, with one Close frame of code
\* 1001 and reason "Connection timeout", exactly the registered connections
\* with now - lastActivity > t; every other connection is left as it is and
\* written nothing, and no room changes.
C21_SweepClosesIdleOnly ==
    [][\A threshold \in Thresholds :
          DisconnectInactiveConnections(threshold)
          => /\ rooms' = rooms
             /\ DOMAIN connections' = DOMAIN connections
             /\ \A id \in DOMAIN connections :
                   IF now - connections[id].lastActivity > threshold
                   THEN /\ ~connections'[id].client
                        /\ connections[id].client
                           => /\ CloseFramesTo(id, last'.frames) = 1
                              /\ \E i \in 1..Len(last'.frames) :
                                    last'.frames[i] = Wrote(id, WS_CLOSE, 1001,
                                                            "Connection timeout", <<>>)
                   ELSE /\ connections'[id] = connections[id]
                        /\ \A i \in 1..Len(last'.frames) : last'.frames[i].to # id]_vars

\* C22: when the callback a step calls raises an exception, the process goes
\* on, an error event is emitted, and the step's state changes are made all the
\* same: after a throwing disconnect handler the connection is out of the
\* registry and out of every room's member list.
C22_HandlerExceptionContained ==
    [][last'.threw
       => /\ proc' = "running"
          /\ \E i \in 1..Len(last'.events) : last'.events[i].type = "error"
          /\ (\E i \in 1..Len(last'.events) : last'.events[i].type = "disconnect")
             => /\ last'.id \notin DOMAIN connections'
                /\ \A name \in DOMAIN rooms' :
                      connections[last'.id].addr \notin Range(rooms'[name].connections)]_vars

\* the calls that look a connection up by the id they are given
ByIdOps ==
    {"send", "sendBinary", "closeConnection", "joinRoom", "leaveRoom", "leaveAllRooms",
     "setAuthenticated", "ping"}

\* C23: send, sendBinary, closeConnection, joinRoom, leaveRoom, leaveAllRooms,
\* setAuthenticated and ping with an id that is not registered return having
\* written nothing, emitted nothing and changed neither registry; and isInRoom
\* is false for every id that is not registered.
C23_UnknownIdIsNoOp ==
    [][/\ \A id \in 1..MaxConn, name \in RoomNames : ~HasConnection(id) => ~IsInRoom(id, name)
       /\ (last'.op \in ByIdOps /\ ~HasConnection(last'.id))
          => /\ proc' = "running"
             /\ connections' = connections
             /\ rooms' = rooms
             /\ last'.events = <<>>
             /\ last'.frames = <<>>
             /\ last'.sent = <<>>
             /\ last'.closed = <<>>]_vars

\* C24: while a room broadcast is between taking the room's lock and releasing
\* it, every member it has yet to send to (the excluded one aside) is a
\* connection that was registered when the lock was taken and is registered
\* still.
C24_FanoutMembersStayRegistered ==
    \A i \in 1..Len(fanout.todo) :
        fanout.todo[i].addr # fanout.exclude
        => /\ fanout.todo[i].id # 0
           /\ fanout.todo[i].id \in DOMAIN connections

\* the events of the given types among those a call emitted
EventsOf(events, types) == LET Is(e) == e.type \in types IN SelectSeq(events, Is)

\* C25: over the whole run the connection callback and the disconnect callback
\* are each called at most once for a connection id, and the read of one frame
\* calls at most one of the message, binaryMessage, ping and pong callbacks,
\* once, and at most one callback at all.
C25_EventsAtMostOnce ==
    [][/\ \A id \in 1..MaxConn :
             /\ emitted'[id].connection <= 1
             /\ emitted'[id].disconnect <= 1
             /\ Len(EventsOf(last'.events, {"connection", "disconnect"})) <= 1
       /\ last'.op = "frame"
          => /\ Len(EventsOf(last'.events, {"message", "binaryMessage", "ping", "pong"})) <= 1
             /\ Len(last'.events) <= 1]_vars

\* connection 1 has had its connection event and, on a Close frame, its
\* disconnect event, once each, and connection 2 has just delivered a message
C25_Witness ==
    /\ emitted[1] = [connection |-> 1, disconnect |-> 1]
    /\ 1 \notin DOMAIN connections
    /\ last.op = "frame"
    /\ last.id = 2
    /\ Len(EventsOf(last.events, {"message"})) = 1

\* C26: the read of a Ping frame on an open connection writes exactly one
\* frame to that connection, a Pong with the payload of the Ping, and then
\* calls the ping callback once.
C26_PingAnsweredByPong ==
    [][\A id \in 1..MaxConn, payload \in DispatchPayloads, throws \in BOOLEAN :
          OnFrame(id, TRUE, WS_PING, payload, throws)
          => /\ last'.frames = <<Wrote(id, WS_PONG, 0, "", payload)>>
             /\ last'.events = <<Event("ping", id, 0, "", <<>>)>>
             /\ last'.order = <<"write", "event">>]_vars

\* a Ping with a two-byte payload has been read and answered
C26_Witness ==
    /\ proc = "running"
    /\ last.op = "frame"
    /\ last.input = <<1, WS_PING, 2>>
    /\ Len(last.frames) = 1
    /\ last.frames[1].opcode = WS_PONG
    /\ last.frames[1].payload = <<3, 232>>

\* C27: a step takes a connection out of the registry only if Close had been
\* invoked on it before (its handle is closed already) or the step itself
\* first wrote it a Close frame and closed its handle: a received Close
\* frame, which is echoed, or cleanup().
C27_RemovedOnlyAfterClose ==
    [][\A id \in DOMAIN connections \ DOMAIN connections' :
          \/ ~connections[id].client
          \/ /\ CloseFramesTo(id, last'.frames) = 1
             /\ HandleClosesOf(id, last'.closed) = 1]_vars

\* cleanup() has emptied a registry that held an open connection, having
\* written it a Close frame
C27_Witness ==
    /\ last.op = "cleanup"
    /\ last.msg = "stopped"
    /\ connections = <<>>
    /\ \E i \in 1..Len(last.frames) :
          last.frames[i].opcode = WS_CLOSE /\ last.frames[i].reason = "Server cleanup"

\* C28: in every reachable state every room of the registry (every name
\* getRooms() returns) has at least one member.
C28_RoomsHaveMembers ==
    \A name \in GetRooms : Len(rooms[name].connections) >= 1

\* C29: no public method locks a mutex its thread already holds, none unlocks
\* a mutex it does not hold, and every call returns (the thread is never left
\* waiting for itself).
C29_NoRelock ==
    [][/\ Misuse(LockTrace(last'.op, Cardinality(DOMAIN connections)), {}) = "none"
       /\ proc' # "hung"]_vars

\* C30: a registered connection on which the server has invoked Close (its
\* handle is closed: closeConnection, the sweep, stop, a read error or EOF) is
\* in the end erased from the connection registry, as long as the process runs.
C30_ClosedEventuallyRemoved ==
    \A id \in 1..MaxConn :
        (HasConnection(id) /\ ~connections[id].client)
            ~> (~HasConnection(id) \/ proc # "running")

\* C31: in every reachable state every pointer in every room's member list is
\* that of a connection in the connection registry (a disconnect takes the
\* connection out of the rooms it was in as it takes it out of the registry).
C31_MembersAreRegistered ==
    \A name \in DOMAIN rooms :
        \A i \in 1..Len(rooms[name].connections) :
            LiveAt(rooms[name].connections[i]) # {}

\* C32: with a joinRoom and a leaveRoom of the same room on two threads, no
\* step erases a room that has a member, no thread is left holding a pointer
\* to an erased room, and once both calls have returned every connection whose
\* room set names a room is in the member list of that room in the registry.
C32_RoomErasedOnlyEmpty ==
    [][/\ \A name \in DOMAIN rooms \ DOMAIN rooms' : rooms[name].connections = <<>>
       /\ ~threads'.join.stale
       /\ threads' = NoThreads
          => \A id \in DOMAIN connections', name \in RoomNames :
                ConnIsInRoom(connections'[id].rooms, name)
                => /\ name \in DOMAIN rooms'
                   /\ connections'[id].addr \in Range(rooms'[name].connections)]_vars

\* how many of a call's events are the given one
Count(events, e) == LET Is(x) == x = e IN Len(SelectSeq(events, Is))

\* C33: a step emits a roomJoin event for a connection and a room exactly when
\* the connection becomes a member of the room in it, and a roomLeave event
\* exactly when it stops being one (by a leave, an eviction or a disconnect),
\* once each; so a join by a member and a leave by a non-member emit nothing.
C33_RoomEventsMatchMembership ==
    [][\A id \in 1..MaxConn, name \in RoomNames :
          /\ Count(last'.events, Event("roomJoin", id, 0, name, <<>>))
                = IF ~IsMember(id, name) /\ IsMember(id, name)' THEN 1 ELSE 0
          /\ Count(last'.events, Event("roomLeave", id, 0, name, <<>>))
                = IF IsMember(id, name) /\ ~IsMember(id, name)' THEN 1 ELSE 0]_vars

C35_ControlPayloadAtMost125 ==
    [][\A i \in 1..Len(last'.frames) :
          last'.frames[i].opcode \in {WS_CLOSE, WS_PING, WS_PONG}
          => Len(last'.frames[i].payload)
                + (IF last'.frames[i].opcode = WS_CLOSE THEN 2 ELSE 0) <= 125]_vars

\* C36: once a Close frame has been sent to a connection (its handle is
\* closed) or received from it (it is erased), every later step leaves it so:
\* a closed connection stays closed with its alive flag false, an erased one
\* stays erased, and no message, binaryMessage, ping or pong callback is
\* called for it.
C36_LifecycleForward ==
    [][\A id \in 1..MaxConn :
          (id < nextId /\ (~HasConnection(id) \/ ~connections[id].client))
          => /\ id \in DOMAIN connections'
                => (~connections'[id].client /\ ~connections'[id].isAlive)
             /\ ~HasConnection(id) => id \notin DOMAIN connections'
             /\ \A i \in 1..Len(last'.events) :
                   last'.events[i].id = id
                   => last'.events[i].type \notin {"message", "binaryMessage", "ping", "pong"}]_vars

\* connection 1 was closed by the server and is registered still, not alive,
\* connection 2 was erased on its Close frame, and a Pong of connection 3 has
\* just been read
C36_Witness ==
    /\ HasConnection(1)
    /\ ~connections[1].client
    /\ ~connections[1].isAlive
    /\ ~HasConnection(2)
    /\ nextId > 3
    /\ last.op = "frame"
    /\ last.id = 3
    /\ Len(EventsOf(last.events, {"pong"})) = 1
    /\ connections[3].isAlive

\* C37: every transport connection that is admitted is stored in the registry
\* under the id it was given and then announced by one connection event
\* carrying that id, the call returning.
C37_RegisteredThenAnnounced ==
    [][(last'.op = "connection" /\ last'.id # 0)
       => /\ proc' = "running"
          /\ last'.id \in DOMAIN connections'
          /\ last'.id \notin DOMAIN connections
          /\ last'.events = <<Event("connection", last'.id, 0, "", <<>>)>>]_vars

\* C38: leaveAllRooms(id) on a registered connection leaves its own room set
\* empty and the connection in no room's member list; a room it was the only
\* member of is erased, a room it shared keeps the other members in their
\* order, a room it was not in is untouched; and the call emits exactly one
\* roomLeave event for each room the connection was a member of, and nothing
\* else.
C38_LeaveAllRooms ==
    [][\A id \in 1..MaxConn :
          (last'.op = "leaveAllRooms" /\ last'.id = id /\ HasConnection(id))
          => /\ id \in DOMAIN connections'
             /\ connections'[id].rooms = <<>>
             /\ \A name \in RoomPair : ~IsMember(id, name)'
             /\ \A name \in DOMAIN rooms :
                   LET rest == Without(rooms[name].connections, connections[id].addr)
                   IN IF ~IsMember(id, name)
                      THEN name \in DOMAIN rooms' /\ rooms'[name] = rooms[name]
                      ELSE IF rest = <<>> THEN name \notin DOMAIN rooms'
                      ELSE /\ name \in DOMAIN rooms'
                           /\ rooms'[name] = [rooms[name] EXCEPT !.connections = rest]
             /\ \A name \in RoomPair :
                   Count(last'.events, Event("roomLeave", id, 0, name, <<>>))
                      = IF IsMember(id, name) THEN 1 ELSE 0
             /\ \A i \in 1..Len(last'.events) :
                   last'.events[i].type = "roomLeave" /\ last'.events[i].id = id]_vars

\* the number a sequence of bytes spells, most significant byte first
RECURSIVE BigEndian(_)
BigEndian(bytes) ==
    IF bytes = <<>> THEN 0
    ELSE BigEndian(SubSeq(bytes, 1, Len(bytes) - 1)) * 256 + bytes[Len(bytes)]

\* C39: the encoding of a frame with payload length n is the byte
\* 0x80 | opcode, then the length as the one byte n for n <= 125, as 126 and n
\* in 2 bytes big-endian for 126 <= n <= 65535, as 127 and n in 8 bytes
\* big-endian above, then the n payload bytes: 2, 4 or 10 bytes plus n in all.
C39_EncoderLayout ==
    (Len(sentFrames) = 1 /\ reads = <<>>)
    => LET opcode == sentFrames[1].opcode
           payload == sentFrames[1].payload
           n == Len(payload)
           header == IF n <= 125 THEN 2 ELSE IF n <= 65535 THEN 4 ELSE 10
       IN /\ Len(stream) = header + n
          /\ stream[1] = 128 + opcode
          /\ \A i \in 1..header : stream[i] \in 0..255
          /\ stream[2] = IF n <= 125 THEN n ELSE IF n <= 65535 THEN 126 ELSE 127
          /\ header > 2 => BigEndian(SubSeq(stream, 3, header)) = n
          /\ SubSeq(stream, header + 1, header + n) = payload

\* a Ping frame of 126 bytes has been encoded with the 16-bit length form
C39_Witness ==
    /\ Len(sentFrames) = 1
    /\ reads = <<>>
    /\ sentFrames[1].opcode = WS_PING
    /\ Len(sentFrames[1].payload) = 126
    /\ SubSeq(stream, 1, 4) = <<137, 126, 0, 126>>
    /\ Len(stream) = 130

\* C40: a frame received with the MASK bit set is handed on with each payload
\* byte i (from 0) XORed with byte i mod 4 of the key, the key being the 4
\* bytes after the length field and no part of the payload; a frame with the
\* MASK bit clear is handed on as it is.
C40_UnmaskedByKey ==
    (Len(sentFrames) = 1 /\ reads # <<>>)
    => LET sent == sentFrames[1]
       IN /\ Len(received) = 1
          /\ received[1].opcode = sent.opcode
          /\ Len(received[1].payload) = Len(sent.payload)
          /\ \A i \in 1..Len(sent.payload) :
                received[1].payload[i] =
                    IF "key" \in DOMAIN sent
                    THEN Xor(sent.payload[i], sent.key[((i - 1) % 4) + 1])
                    ELSE sent.payload[i]

\* a masked Text frame of 5 bytes has been read: its first and its fifth byte
\* were both XORed with the first byte of the key
C40_Witness ==
    /\ Len(sentFrames) = 1
    /\ reads # <<>>
    /\ "key" \in DOMAIN sentFrames[1]
    /\ sentFrames[1].key = <<255, 129, 7, 64>>
    /\ sentFrames[1].payload = <<1, 2, 3, 4, 5>>
    /\ received = <<[opcode |-> WS_TEXT, payload |-> <<254, 131, 4, 68, 250>>]>>

====
